---- MODULE Spec2Model ----
(***************************************************************************)
(* State-machine model of the napari Shapes layer                          *)
(* (napari/layers/shapes/shapes.py on top of napari/layers/base/base.py).  *)
(*                                                                         *)
(* Every handler of the layer is a function from a layer record to a layer *)
(* record, written in the order of the statements of the Python method it  *)
(* models; an action applies one public operation (with everything it      *)
(* calls) to the current layer.  Indices are 0-based as in the source:     *)
(* At(seq, i) is the Python seq[i].                                        *)
(***************************************************************************)
EXTENDS Integers, Sequences, FiniteSets, TLC

(* ---------------------------------------------------------------------- *)
(* Bounds of the model                                                     *)
(* ---------------------------------------------------------------------- *)
\* an operation that would exceed this many shapes is not taken
MaxShapes == 2
\* slice positions of every axis range over 0..MaxStep
MaxStep == 1
\* cap on the length of a property or color array
MaxRows == 3
\* cap on the vertices of a path/polygon being drawn
MaxVerts == 4
\* cap on z-index values
MaxZ == 2

(* ---------------------------------------------------------------------- *)
(* Values                                                                  *)
(* ---------------------------------------------------------------------- *)
NoneIdx == -1       \* Python None where an index or coordinate is expected
SliceAll == -2      \* slice(None): the entry of dims.indices for a displayed axis

Axes == {0, 1, 2}   \* the layer is three-dimensional

PAN_ZOOM == "pan_zoom"
SELECT == "select"
DIRECT == "direct"
VERTEX_INSERT == "vertex_insert"
VERTEX_REMOVE == "vertex_remove"
ADD_RECTANGLE == "add_rectangle"
ADD_ELLIPSE == "add_ellipse"
ADD_LINE == "add_line"
ADD_PATH == "add_path"
ADD_POLYGON == "add_polygon"

Mode == {PAN_ZOOM, SELECT, DIRECT, VERTEX_INSERT, VERTEX_REMOVE,
         ADD_RECTANGLE, ADD_ELLIPSE, ADD_LINE, ADD_PATH, ADD_POLYGON}

\* draw_modes of the mode setter
draw_modes == {SELECT, DIRECT, VERTEX_INSERT, VERTEX_REMOVE}

PropNames == {"size"}
PropValues == {1, 2}

\* the properties a layer is built with: size is an integer column, kind a
\* column of strings (its values are written 10 and 11)
property_choices(k) == IF k = "kind" THEN <<10, 11>> ELSE <<1, 2, 3>>

\* "issubclass(self.properties[k].dtype.type, np.number)"
is_numeric(k) == k # "kind"

\* the two color attributes of a shape
Attributes == {"edge", "face"}

DIRECT_COLOR == "direct"
CYCLE == "cycle"
COLORMAP == "colormap"

ColorMode == {DIRECT_COLOR, CYCLE, COLORMAP}

\* the cycle a layer gets when none is passed
DEFAULT_COLOR_CYCLE == <<"magenta", "green">>

\* an empty value-to-color map: {}
EmptyMap == [v \in {} |-> ""]

\* contrast_limits = None
NoLimits == <<>>

(* ---------------------------------------------------------------------- *)
(* Sequence helpers (0-based access, numpy/list primitives)                *)
(* ---------------------------------------------------------------------- *)
At(seq, i) == seq[i + 1]

Idx(seq) == 0 .. (Len(seq) - 1)

\* np.delete(arr, index, axis=0): drop the rows whose index is in the set
NpDelete(seq, index) ==
    LET keep(i) == (i - 1) \notin index
    IN  SelectSeq([i \in 1 .. Len(seq) |-> <<i, seq[i]>>],
                  LAMBDA p : keep(p[1]))

Snd(pairs) == [i \in 1 .. Len(pairs) |-> pairs[i][2]]

DeleteRows(seq, index) == Snd(NpDelete(seq, index))

\* ascending list of a finite set of naturals: list(set) for small ints
RECURSIVE SortedList(_)
SortedList(S) ==
    IF S = {} THEN <<>>
    ELSE LET m == CHOOSE x \in S : \A y \in S : x <= y
         IN  <<m>> \o SortedList(S \ {m})

\* arr[index] with a list index: the rows in the order of the list
Take(seq, lst) == [i \in 1 .. Len(lst) |-> At(seq, lst[i])]

\* np.repeat(value, n) / np.tile(value, (n, 1))
Repeat(v, n) == [i \in 1 .. n |-> v]

\* list.remove(x): drop the first occurrence of x
ListRemove(seq, x) ==
    IF \E i \in 1 .. Len(seq) : seq[i] = x
    THEN LET k == CHOOSE i \in 1 .. Len(seq) :
                      seq[i] = x /\ \A j \in 1 .. (i - 1) : seq[j] # x
         IN  SubSeq(seq, 1, k - 1) \o SubSeq(seq, k + 1, Len(seq))
    ELSE seq

Max(S, default) == IF S = {} THEN default ELSE CHOOSE x \in S : \A y \in S : y <= x

(* ---------------------------------------------------------------------- *)
(* Dims: order, ndisplay and the slice position                            *)
(* ---------------------------------------------------------------------- *)
ndim == Cardinality(Axes)

\* Dims.displayed: order[-ndisplay:]
displayed(order, ndisplay) ==
    {order[i] : i \in (Len(order) - ndisplay + 1) .. Len(order)}

\* Dims.not_displayed: order[:-ndisplay], in order
not_displayed(order, ndisplay) == SubSeq(order, 1, Len(order) - ndisplay)

\* dims.indices: slice(None) on a displayed axis, the position elsewhere
indices(point, order, ndisplay) ==
    [i \in 1 .. ndim |->
        IF (i - 1) \in displayed(order, ndisplay) THEN SliceAll ELSE point[i]]

\* np.array(self.dims.indices)[list(self.dims.not_displayed)]
SliceKeyOf(point, order, ndisplay) ==
    LET nd == not_displayed(order, ndisplay)
    IN  [i \in 1 .. Len(nd) |-> At(point, nd[i])]

Orders == {<<0, 1, 2>>, <<1, 0, 2>>}

(* ---------------------------------------------------------------------- *)
(* Shape models                                                            *)
(* ---------------------------------------------------------------------- *)
\* vertex count each shape type accepts at construction
ValidVertexCount(st, n) ==
    CASE st \in {"rectangle", "ellipse"} -> n = 4
      [] st = "line" -> n = 2
      [] st = "path" -> n >= 2
      [] st = "polygon" -> n >= 3
      [] OTHER -> FALSE

Shape(st, data, z) == [st |-> st, data |-> data, z |-> z]

NoneCoord == <<>>   \* Python None where a coordinate pair is expected

(* ---------------------------------------------------------------------- *)
(* ShapeList: the collection the layer keeps in _data_view                 *)
(* ---------------------------------------------------------------------- *)
\* ShapeList.add(shape, edge_color=, face_color=): append shape and colors
ShapeList_add(s, shape, ec, fc) ==
    [s EXCEPT !.shapes = Append(@, shape),
              !.edge_color = Append(@, ec),
              !.face_color = Append(@, fc)]

\* ShapeList.remove(index): drop the shape (and its z_index entry); the
\* color rows are left to the caller, as Shapes.remove_selected shows
ShapeList_remove(s, index) ==
    IF index \in Idx(s.shapes)
    THEN [s EXCEPT !.shapes = DeleteRows(@, {index})]
    ELSE s

\* ShapeList.edit(index, data, new_type=): replace the vertices of a shape
ShapeList_edit(s, index, data, new_type) ==
    IF index \in Idx(s.shapes)
    THEN [s EXCEPT !.shapes[index + 1] =
             [@ EXCEPT !.data = data,
                       !.st = IF new_type = "" THEN @ ELSE new_type]]
    ELSE s

\* ShapeList.update_z_index(index, z_index)
ShapeList_update_z_index(s, index, z) ==
    [s EXCEPT !.shapes[index + 1].z = z]

\* ShapeList._z_index
z_indices(s) == {s.shapes[i].z : i \in 1 .. Len(s.shapes)}

\* a shape is displayed iff on every non-displayed axis all its vertices
\* lie on the slice key of the collection
IsDisplayed(s, shape) ==
    LET nd == not_displayed(s.display_order_stored, s.ndisplay_stored)
    IN  /\ Len(s.dv_slice_key) = Len(nd)
        /\ \A k \in 1 .. Len(nd) : \A v \in 1 .. Len(shape.data) :
               At(shape.data[v], nd[k]) = s.dv_slice_key[k]

\* displayed_vertices[displayed_index == index], kept as full vertices
displayed_vertices_of(s, index) ==
    IF index \in Idx(s.shapes) /\ IsDisplayed(s, At(s.shapes, index))
    THEN At(s.shapes, index).data
    ELSE <<>>

\* the displayed axes of the collection, in order
displayed_axes(s) ==
    SubSeq(s.display_order_stored,
           Len(s.display_order_stored) - s.ndisplay_stored + 1,
           Len(s.display_order_stored))

\* the coordinates of full vertices on the displayed axes
data_displayed(s, data) ==
    {[k \in 1 .. Len(displayed_axes(s)) |-> At(data[v], displayed_axes(s)[k])] :
         v \in 1 .. Len(data)}

\* create_box(data): the axis-aligned box around the vertices, kept as its
\* lowest and highest corner; the corners, the midpoints and the center of
\* the 9 x 2 array follow from the two.  A box around no vertex has no
\* corner
create_box(points) ==
    IF points = {} THEN << <<>>, <<>> >>
    ELSE LET n == Len(CHOOSE p \in points : TRUE)
             along(k) == {p[k] : p \in points}
         IN  << [k \in 1 .. n |-> CHOOSE x \in along(k) :
                                      \A y \in along(k) : x <= y],
                [k \in 1 .. n |-> Max(along(k), 0)] >>

\* Shape._box: the box around the displayed coordinates of the shape
shape_box(s, index) == create_box(data_displayed(s, At(s.shapes, index).data))

\* Shapes.interaction_box for a set of indices: no box for no shape, the box
\* of the shape for one, the box around the displayed vertices of the shapes
\* for more.  The rotation handle the layer appends is a function of the
\* box and is not kept
interaction_box(s, index) ==
    IF index = {} THEN NoneCoord
    ELSE IF Cardinality(index) = 1
    THEN shape_box(s, CHOOSE i \in index : TRUE)
    ELSE create_box(UNION {data_displayed(s, displayed_vertices_of(s, i)) :
                               i \in index})

(* ---------------------------------------------------------------------- *)
(* Layer handlers                                                          *)
(* ---------------------------------------------------------------------- *)
EmptyClipboard ==
    [full |-> FALSE, data |-> <<>>, edge_color |-> <<>>, face_color |-> <<>>,
     properties |-> [k \in {} |-> <<>>], indices |-> <<>>]

\* Shapes.expand_shape applied to the displayed part of full vertices: the
\* non-displayed axes are filled with the current dims.indices
expand_shape(s, data) ==
    [v \in 1 .. Len(data) |->
        [a \in 1 .. ndim |->
            IF (a - 1) \in displayed(s.dims_order, s.dims_ndisplay)
            THEN data[v][a]
            ELSE s.dims_point[a]]]

\* with_selected_box with the slip of leaving the box as it was
with_stale_box(s) == s

\* "self._selected_box = self.interaction_box(self._selected_data)"
with_selected_box(s) ==
    [s EXCEPT !.selected_box = interaction_box(s, s.selected_data)]

\* Shapes.selected_data setter: the interaction box is computed, and the
\* current colors and properties follow the selection when all selected
\* shapes agree on them
selected_data_setter(s, selected) ==
    LET fcs == {At(s.face_color, i) : i \in selected}
        ecs == {At(s.edge_color, i) : i \in selected}
        uniq(k) == {At(s.properties[k], i) : i \in selected}
    IN  [with_selected_box([s EXCEPT !.selected_data = selected]) EXCEPT
            !.current_face_color =
                IF selected # {} /\ Cardinality(fcs) = 1
                THEN CHOOSE c \in fcs : TRUE ELSE @,
            !.current_edge_color =
                IF selected # {} /\ Cardinality(ecs) = 1
                THEN CHOOSE c \in ecs : TRUE ELSE @,
            !.current_properties =
                IF /\ selected # {}
                   /\ \A k \in DOMAIN s.properties : Cardinality(uniq(k)) = 1
                THEN [k \in DOMAIN s.properties |-> CHOOSE x \in uniq(k) : TRUE]
                ELSE @]

\* Shapes._set_view_slice.  np.all(slice_key == stored) on arrays of
\* different length broadcasts to an empty array, which is all-true
SliceKeyDiffers(a, b) ==
    Len(a) = Len(b) /\ \E i \in 1 .. Len(a) : a[i] # b[i]

\* _set_view_slice, "if not self.dims.ndisplay == self._ndisplay_stored"
view_ndisplay(s) ==
    IF s.dims_ndisplay # s.ndisplay_stored
    THEN [selected_data_setter(s, {}) EXCEPT
             !.ndisplay_stored = s.dims_ndisplay,
             !.clipboard = EmptyClipboard]
    ELSE s

\* view_order with the slip of keeping the clipboard when the order changes
view_order_keeps_clipboard(s) ==
    IF s.dims_order # s.display_order_stored
    THEN [selected_data_setter(s, {}) EXCEPT
             !.display_order_stored = s.dims_order]
    ELSE s

\* _set_view_slice, "if not self.dims.order == self._display_order_stored"
view_order(s) ==
    IF s.dims_order # s.display_order_stored
    THEN [selected_data_setter(s, {}) EXCEPT
             !.display_order_stored = s.dims_order,
             !.clipboard = EmptyClipboard]
    ELSE s

\* _set_view_slice, the slice key: the selection is cleared when it differs
\* from the one the collection holds, and it is stored
view_slice_key(s) ==
    LET slice_key == SliceKeyOf(s.dims_point, s.dims_order, s.dims_ndisplay)
    IN  [(IF SliceKeyDiffers(slice_key, s.dv_slice_key)
          THEN selected_data_setter(s, {}) ELSE s)
         EXCEPT !.dv_slice_key = slice_key]

\* Shapes._set_view_slice
set_view_slice(s) == view_slice_key(view_order(view_ndisplay(s)))

\* Layer.refresh
refresh(s) == IF s.visible THEN set_view_slice(s) ELSE s

\* Layer._update_dims: the dimensionality is fixed, what is left is refresh
update_dims(s) == refresh(s)

\* reset_drawing with the slip of leaving the selection as it is
reset_drawing_keeps_selection(s) ==
    [s EXCEPT
        !.is_moving = FALSE,
        !.drag_start = NoneCoord,
        !.drag_box = NoneCoord,
        !.is_selecting = FALSE,
        !.fixed_vertex = NoneCoord,
        !.moving_value = <<NoneIdx, NoneIdx>>]

\* the head of _finish_drawing: moving, selection and drag state are reset
reset_drawing(s) ==
    [selected_data_setter(s, {}) EXCEPT
        !.is_moving = FALSE,
        !.drag_start = NoneCoord,
        !.drag_box = NoneCoord,
        !.is_selecting = FALSE,
        !.fixed_vertex = NoneCoord,
        !.moving_value = <<NoneIdx, NoneIdx>>]

\* "if self._is_creating is True and self._mode == <in_mode>": the shape
\* being drawn is removed when it has at most min_len vertices, else it
\* loses the vertex that followed the cursor
finish_shape(s, index, in_mode, min_len) ==
    LET vertices == displayed_vertices_of(s, index)
    IN  IF s.is_creating /\ s.mode = in_mode
        THEN IF Len(vertices) <= min_len
             THEN ShapeList_remove(s, index)
             ELSE ShapeList_edit(
                      s, index,
                      SubSeq(expand_shape(s, vertices), 1, Len(vertices) - 1),
                      "")
        ELSE s

\* Shapes._finish_drawing
finish_drawing(s) ==
    update_dims(
        [finish_shape(
             finish_shape(reset_drawing(s), s.moving_value[1], ADD_PATH, 2),
             s.moving_value[1], ADD_POLYGON, 3)
         EXCEPT !.is_creating = FALSE])

(* ---------------------------------------------------------------------- *)
(* Mode state machine                                                      *)
(* ---------------------------------------------------------------------- *)
\* coerce_mode with the slip of not looking at editable
coerce_mode_ignores_editable(mode, editable) == mode

\* "if not self.editable: mode = Mode.PAN_ZOOM"
coerce_mode(mode, editable) == IF ~editable THEN PAN_ZOOM ELSE mode

\* remove_old_callbacks with the slip of leaving the old handlers registered
remove_old_callbacks_keeps_all(s, old_mode) == s

\* the branch of the mode setter that unregisters the old mode's handlers
remove_old_callbacks(s, old_mode) ==
    CASE old_mode \in {SELECT, DIRECT} ->
            [s EXCEPT !.mouse_drag_callbacks = ListRemove(@, "select"),
                      !.mouse_move_callbacks = ListRemove(@, "highlight")]
      [] old_mode = VERTEX_INSERT ->
            [s EXCEPT !.mouse_drag_callbacks = ListRemove(@, "vertex_insert"),
                      !.mouse_move_callbacks = ListRemove(@, "highlight")]
      [] old_mode = VERTEX_REMOVE ->
            [s EXCEPT !.mouse_drag_callbacks = ListRemove(@, "vertex_remove"),
                      !.mouse_move_callbacks = ListRemove(@, "highlight")]
      [] old_mode = ADD_RECTANGLE ->
            [s EXCEPT !.mouse_drag_callbacks = ListRemove(@, "add_rectangle")]
      [] old_mode = ADD_ELLIPSE ->
            [s EXCEPT !.mouse_drag_callbacks = ListRemove(@, "add_ellipse")]
      [] old_mode = ADD_LINE ->
            [s EXCEPT !.mouse_drag_callbacks = ListRemove(@, "add_line")]
      [] old_mode \in {ADD_PATH, ADD_POLYGON} ->
            [s EXCEPT !.mouse_drag_callbacks = ListRemove(@, "add_path_polygon"),
                      !.mouse_move_callbacks =
                          ListRemove(@, "add_path_polygon_creating")]
      [] OTHER -> s

\* the branch of the mode setter that sets cursor, interactivity and help
\* text and registers the new mode's handlers
enter_mode(s, mode) ==
    CASE mode = PAN_ZOOM ->
            [s EXCEPT !.cursor = "standard", !.interactive = TRUE,
                      !.help = "enter a selection mode to edit shape properties"]
      [] mode \in {SELECT, DIRECT} ->
            [s EXCEPT !.cursor = "pointing", !.interactive = FALSE,
                      !.help = "hold <space> to pan/zoom, press <backspace> to remove selected",
                      !.mouse_drag_callbacks = Append(@, "select"),
                      !.mouse_move_callbacks = Append(@, "highlight")]
      [] mode \in {VERTEX_INSERT, VERTEX_REMOVE} ->
            [s EXCEPT !.cursor = "cross", !.interactive = FALSE,
                      !.help = "hold <space> to pan/zoom",
                      !.mouse_drag_callbacks =
                          Append(@, IF mode = VERTEX_INSERT
                                    THEN "vertex_insert" ELSE "vertex_remove"),
                      !.mouse_move_callbacks = Append(@, "highlight")]
      [] mode \in {ADD_RECTANGLE, ADD_ELLIPSE, ADD_LINE} ->
            [s EXCEPT !.cursor = "cross", !.interactive = FALSE,
                      !.help = "hold <space> to pan/zoom",
                      !.mouse_drag_callbacks =
                          Append(@, CASE mode = ADD_RECTANGLE -> "add_rectangle"
                                      [] mode = ADD_ELLIPSE -> "add_ellipse"
                                      [] OTHER -> "add_line")]
      [] OTHER ->
            [s EXCEPT !.cursor = "cross", !.interactive = FALSE,
                      !.help = "hold <space> to pan/zoom, press <esc> to finish drawing",
                      !.mouse_drag_callbacks = Append(@, "add_path_polygon"),
                      !.mouse_move_callbacks =
                          Append(@, "add_path_polygon_creating")]

\* finishes_drawing with the slip of finalizing only on the way to PAN_ZOOM
finishes_drawing_into_pan_zoom(mode, old_mode) == mode = PAN_ZOOM

\* "if not (mode in draw_modes and old_mode in draw_modes)"
finishes_drawing(mode, old_mode) ==
    ~(mode \in draw_modes /\ old_mode \in draw_modes)

\* finish_and_refresh with the slip of finishing on every transition
finish_and_refresh_always(s, mode, old_mode) == refresh(finish_drawing(s))

\* the tail of the mode setter: _finish_drawing unless both modes are draw
\* modes, then refresh
finish_and_refresh(s, mode, old_mode) ==
    refresh(IF finishes_drawing(mode, old_mode) THEN finish_drawing(s) ELSE s)

\* mode_setter with the slip of registering the selection handler again
\* where the setter returns early because the mode is already the current one
mode_setter_registers_on_repeat(s, requested) ==
    IF coerce_mode(requested, s.editable) = s.mode
    THEN [s EXCEPT !.mouse_drag_callbacks = Append(@, "select")]
    ELSE finish_and_refresh(
             [enter_mode(remove_old_callbacks(s, s.mode),
                         coerce_mode(requested, s.editable))
                 EXCEPT !.mode = coerce_mode(requested, s.editable)],
             coerce_mode(requested, s.editable), s.mode)

\* Shapes.mode setter; self._mode is assigned before _finish_drawing runs
mode_setter(s, requested) ==
    IF coerce_mode(requested, s.editable) = s.mode
    THEN s
    ELSE finish_and_refresh(
             [enter_mode(remove_old_callbacks(s, s.mode),
                         coerce_mode(requested, s.editable))
              EXCEPT !.mode = coerce_mode(requested, s.editable)],
             coerce_mode(requested, s.editable), s.mode)

\* Shapes._set_editable(editable=<bool>), called by the editable setter
set_editable_explicit(s) ==
    IF ~s.editable THEN mode_setter(s, PAN_ZOOM) ELSE s

\* Layer.editable setter
editable_setter(s, editable) ==
    IF s.editable = editable
    THEN s
    ELSE set_editable_explicit([s EXCEPT !.editable = editable])

\* Shapes._set_editable() with editable=None: editability follows ndisplay
set_editable(s) ==
    set_editable_explicit(editable_setter(s, s.dims_ndisplay # 3))

\* "self.editable = self._set_editable()": _set_editable() has returned None
\* and None is assigned to editable; it differs from the stored boolean, so
\* the setter runs _set_editable(editable=None), which assigns the boolean
\* (a second pass through the setter); each pass calls _set_editable
assign_none_to_editable(s) ==
    set_editable_explicit(set_editable_explicit(
        [s EXCEPT !.editable = (s.dims_ndisplay # 3)]))

\* the branch of the visible setter after refresh
editable_after_visible(s) ==
    IF s.visible
    THEN assign_none_to_editable(set_editable(s))
    ELSE editable_setter(s, FALSE)

\* Layer.visible setter
visible_setter(s, visibility) ==
    editable_after_visible(refresh([s EXCEPT !.visible = visibility]))

(* ---------------------------------------------------------------------- *)
(* Adding, removing, copying and pasting shapes                            *)
(* ---------------------------------------------------------------------- *)
\* transform_color_with_defaults followed by normalize_and_broadcast_colors:
\* one row per entry; a single color is broadcast, a wrong count falls back
\* to the default color
broadcast_colors(num_entries, colors) ==
    IF Len(colors) = num_entries THEN colors
    ELSE IF Len(colors) = 1 THEN Repeat(colors[1], num_entries)
    ELSE Repeat("white", num_entries)

\* Shapes._get_new_shape_color in ColorMode.DIRECT
get_new_shape_color(current_color, adding) == Repeat(current_color, adding)

(* ---------------------------------------------------------------------- *)
(* Colors from properties: the CYCLE and COLORMAP modes                    *)
(* ---------------------------------------------------------------------- *)
\* the color the cycle iterator of an attribute yields i steps from now
cycle_color(s, a, i) ==
    s.color_cycle[a][((s.color_cycle_pos[a] + i) % Len(s.color_cycle[a])) + 1]

\* np.unique(values): the distinct values in ascending order
np_unique(values) == SortedList({values[i] : i \in 1 .. Len(values)})

\* position of a value in a list that holds it
index_of(lst, v) == CHOOSE i \in 1 .. Len(lst) : lst[i] = v

\* "color_cycle_map[prop] = transform_color(next(color_cycle))" for every
\* prop of keys in turn, on top of the entries of base
take_from_cycle(s, a, base, keys) ==
    [s EXCEPT
        !.color_cycle_map[a] =
            [v \in DOMAIN base \cup {keys[i] : i \in 1 .. Len(keys)} |->
                IF \E i \in 1 .. Len(keys) : keys[i] = v
                THEN cycle_color(s, a, index_of(keys, v) - 1)
                ELSE base[v]],
        !.color_cycle_pos[a] = (@ + Len(keys)) % Len(s.color_cycle[a])]

\* _map_color in CYCLE with update_color_mapping: a new map over
\* zip(np.unique(color_properties), color_cycle)
rebuild_cycle_map(s, a) ==
    take_from_cycle(s, a, EmptyMap, np_unique(s.properties[s.color_property[a]]))

\* extend_cycle_map with the slip of starting from an empty map
extend_cycle_map_forgets(s, a) ==
    take_from_cycle(s, a, EmptyMap, np_unique(s.properties[s.color_property[a]]))

\* _map_color in CYCLE without update_color_mapping: the values that are
\* not in the map are added to it
extend_cycle_map(s, a) ==
    take_from_cycle(
        s, a, s.color_cycle_map[a],
        np_unique(SelectSeq(s.properties[s.color_property[a]],
                            LAMBDA v : v \notin DOMAIN s.color_cycle_map[a])))

\* "setattr(self._data_view, f'{attribute}_color', colors)"
with_colors(s, a, colors) ==
    IF a = "edge" THEN [s EXCEPT !.edge_color = colors]
    ELSE [s EXCEPT !.face_color = colors]

\* "colors = np.array([color_cycle_map[x] for x in color_properties])"
cycle_colors(s, a) ==
    [i \in 1 .. Len(s.properties[s.color_property[a]]) |->
        s.color_cycle_map[a][s.properties[s.color_property[a]][i]]]

\* map_property: the colormap sampled at (value - lo) / (hi - lo), clamped
\* to [0, 1]; the sample is named by the fraction
colormap_sample(v, limits) ==
    LET den == limits[2] - limits[1]
        num == IF v < limits[1] THEN 0
               ELSE IF v > limits[2] THEN den ELSE v - limits[1]
    IN  CASE den = 0 -> "cmap(nan)"
          [] den # 0 /\ num = 0 -> "cmap(0)"
          [] den # 0 /\ num = den -> "cmap(1)"
          [] den # 0 /\ 2 * num = den -> "cmap(1/2)"
          [] den # 0 /\ 3 * num = den -> "cmap(1/3)"
          [] den # 0 /\ 3 * num = 2 * den -> "cmap(2/3)"
          [] OTHER -> "cmap(other)"

\* map_property without contrast limits: (min, max) of the values
min_max(values) ==
    LET S == {values[i] : i \in 1 .. Len(values)}
    IN  <<CHOOSE x \in S : \A y \in S : x <= y,
          CHOOSE x \in S : \A y \in S : y <= x>>

\* "if update_color_mapping or contrast_limits is None"
recomputes_limits(update_color_mapping, limits) ==
    update_color_mapping \/ limits = NoLimits

\* _map_color in COLORMAP: the contrast limits the colors are mapped with
mapped_limits(s, a, update_color_mapping) ==
    IF Len(s.properties[s.color_property[a]]) > 0
       /\ recomputes_limits(update_color_mapping, s.contrast_limits[a])
    THEN [s EXCEPT !.contrast_limits[a] =
              min_max(s.properties[s.color_property[a]])]
    ELSE s

\* _map_color in COLORMAP: the colors
colormap_colors(s, a) ==
    [i \in 1 .. Len(s.properties[s.color_property[a]]) |->
        colormap_sample(s.properties[s.color_property[a]][i],
                        s.contrast_limits[a])]

\* the colors of _map_color, stored by _refresh_color
store_mapped_colors(s, a) ==
    with_colors(s, a,
                IF s.color_mode[a] = CYCLE THEN cycle_colors(s, a)
                ELSE colormap_colors(s, a))

\* Shapes._map_color: the map or the limits are brought up to date
map_color(s, a, update_color_mapping) ==
    IF s.color_mode[a] = CYCLE
    THEN IF update_color_mapping THEN rebuild_cycle_map(s, a)
         ELSE extend_cycle_map(s, a)
    ELSE mapped_limits(s, a, update_color_mapping)

\* Shapes._refresh_color; a color property that is not a key of properties
\* is a KeyError
refresh_color(s, a, update_color_mapping) ==
    IF s.error # "" \/ s.color_mode[a] = DIRECT_COLOR THEN s
    ELSE IF s.color_property[a] \notin DOMAIN s.properties
    THEN [s EXCEPT !.error = "KeyError"]
    ELSE store_mapped_colors(map_color(s, a, update_color_mapping), a)

\* Shapes.refresh_colors
refresh_colors(s, update_color_mapping) ==
    refresh_color(refresh_color(s, "face", update_color_mapping),
                  "edge", update_color_mapping)

\* "next(iter(self.properties))": the first key of the properties
first_property(s) ==
    IF "size" \in DOMAIN s.properties THEN "size" ELSE "kind"

\* _set_color_mode, "if color_property == ''": the first property is taken,
\* or the call fails when there is none
choose_color_property(s, a) ==
    IF s.color_property[a] # "" THEN s
    ELSE IF DOMAIN s.properties # {}
    THEN [s EXCEPT !.color_property[a] = first_property(s)]
    ELSE [s EXCEPT !.error = "ValueError"]

\* to_mapped_mode with the slip of accepting any property for a colormap
to_mapped_mode_any_dtype(s, color_mode, a) ==
    IF s.error # "" THEN s
    ELSE refresh_colors([s EXCEPT !.color_mode[a] = color_mode], FALSE)

\* _set_color_mode, the tail of the CYCLE / COLORMAP branch: a colormap
\* needs a numeric property
to_mapped_mode(s, color_mode, a) ==
    IF s.error # "" THEN s
    ELSE IF color_mode = COLORMAP /\ ~is_numeric(s.color_property[a])
    THEN [s EXCEPT !.error = "TypeError"]
    ELSE refresh_colors([s EXCEPT !.color_mode[a] = color_mode], FALSE)

\* set_color_mode with the slip of taking CYCLE and COLORMAP without looking
\* for a property
set_color_mode_unchecked(s, color_mode, a) ==
    [s EXCEPT !.color_mode[a] = color_mode]

\* Shapes._set_color_mode
set_color_mode(s, color_mode, a) ==
    IF color_mode = DIRECT_COLOR
    THEN [s EXCEPT !.color_mode[a] = color_mode]
    ELSE to_mapped_mode(choose_color_property(s, a), color_mode, a)

\* guess_continuous: a float column, or one of more than 16 distinct values;
\* the columns here are integers and strings of a few values
guess_continuous(k) == FALSE

\* Shapes._set_color with the name of a property
set_color_by_property(s, color, a) ==
    refresh_colors(
        [s EXCEPT !.color_mode[a] =
                      IF guess_continuous(color) THEN COLORMAP ELSE CYCLE,
                  !.color_property[a] = color],
        FALSE)

\* Shapes._set_color with a color
set_color_direct(s, color, a) ==
    [with_colors(s, a,
                 IF Len(s.shapes) > 0
                 THEN broadcast_colors(Len(s.shapes), <<color>>)
                 ELSE <<>>)
     EXCEPT !.color_mode[a] = DIRECT_COLOR]

\* Shapes._set_color: _is_color_mapped(color) tells the two apart
set_color(s, color, a) ==
    IF color \in DOMAIN s.properties
    THEN set_color_by_property(s, color, a)
    ELSE set_color_direct(s, color, a)

\* Shapes._set_color_cycle: a new iterator over the new colors
set_color_cycle(s, cycle, a) ==
    IF s.color_mode[a] = CYCLE
    THEN refresh_colors([s EXCEPT !.color_cycle[a] = cycle,
                                  !.color_cycle_pos[a] = 0], TRUE)
    ELSE [s EXCEPT !.color_cycle[a] = cycle, !.color_cycle_pos[a] = 0]

\* the edge_contrast_limits / face_contrast_limits setter
set_contrast_limits(s, limits, a) == [s EXCEPT !.contrast_limits[a] = limits]

\* _get_new_shape_color in CYCLE: the value of the current properties gets
\* the next color of the cycle if it has none
note_new_value(s, a) ==
    IF s.color_mode[a] = CYCLE
       /\ s.current_properties[s.color_property[a]]
              \notin DOMAIN s.color_cycle_map[a]
    THEN take_from_cycle(s, a, s.color_cycle_map[a],
                         <<s.current_properties[s.color_property[a]]>>)
    ELSE s

\* _get_new_shape_color: the colors of the shapes being added; without
\* contrast limits map_property takes them from the one value
new_shape_colors(s, a, current_color, adding) ==
    CASE s.color_mode[a] = CYCLE ->
            Repeat(s.color_cycle_map[a][s.current_properties[s.color_property[a]]],
                   adding)
      [] s.color_mode[a] = COLORMAP ->
            Repeat(colormap_sample(
                       s.current_properties[s.color_property[a]],
                       IF s.contrast_limits[a] = NoLimits
                       THEN <<s.current_properties[s.color_property[a]],
                              s.current_properties[s.color_property[a]]>>
                       ELSE s.contrast_limits[a]),
                   adding)
      [] OTHER -> get_new_shape_color(current_color, adding)

\* "z_index = z_index or max(self._data_view._z_index, default=-1) + 1"
new_z_index(s, z_index) ==
    IF z_index = NoneIdx \/ z_index = 0
    THEN Max(z_indices(s), -1) + 1
    ELSE z_index

\* len(data) as Shapes.add takes it: the number of shapes of a list, the
\* number of vertices of a single (N, D) array
n_new_shapes(data) ==
    IF data.kind = "single" THEN Len(data.items[1].data) ELSE Len(data.items)

\* the loop of _add_shapes: build and add the shapes one after the other;
\* a shape class that rejects its vertices raises and ends the loop
RECURSIVE add_shapes_loop(_, _, _, _, _, _)
add_shapes_loop(s, items, i, ecs, fcs, z) ==
    IF i > Len(items) THEN s
    ELSE IF ~ValidVertexCount(items[i].st, Len(items[i].data))
         THEN [s EXCEPT !.error = "InvalidVertexCount"]
         ELSE add_shapes_loop(
                  ShapeList_add(s, Shape(items[i].st, items[i].data, z),
                                ecs[i], fcs[i]),
                  items, i + 1, ecs, fcs, z)

\* the tail of _add_shapes, not reached when a shape class has raised
store_view_and_update_dims(s) ==
    IF s.error # "" THEN s
    ELSE update_dims([s EXCEPT !.display_order_stored = s.dims_order,
                               !.ndisplay_stored = s.dims_ndisplay])

\* Shapes._add_shapes
add_shapes(s, data, edge_color, face_color, z_index) ==
    store_view_and_update_dims(
        IF n_new_shapes(data) > 0
        THEN add_shapes_loop(s, data.items, 1,
                             broadcast_colors(Len(data.items), edge_color),
                             broadcast_colors(Len(data.items), face_color),
                             new_z_index(s, z_index))
        ELSE s)

\* the property rows Shapes.add appends before it calls _add_shapes
append_current_properties(s, n) ==
    [s EXCEPT !.properties =
        [k \in DOMAIN @ |-> @[k] \o Repeat(s.current_properties[k], n)]]

\* Shapes.add once the colors of the new shapes are known
add_colored(s, data, edge_color, face_color, z_index) ==
    IF n_new_shapes(data) > 0
    THEN add_shapes(
             append_current_properties(s, n_new_shapes(data)), data,
             IF edge_color = ""
             THEN new_shape_colors(s, "edge", s.current_edge_color,
                                   n_new_shapes(data))
             ELSE <<edge_color>>,
             IF face_color = ""
             THEN new_shape_colors(s, "face", s.current_face_color,
                                   n_new_shapes(data))
             ELSE <<face_color>>,
             new_z_index(s, z_index))
    ELSE s

\* Shapes.add; color "" stands for edge_color=None / face_color=None
add(s, data, edge_color, face_color, z_index) ==
    add_colored(
        IF face_color = ""
        THEN note_new_value(IF edge_color = "" THEN note_new_value(s, "edge")
                            ELSE s, "face")
        ELSE IF edge_color = "" THEN note_new_value(s, "edge") ELSE s,
        data, edge_color, face_color, z_index)

\* "self._data_view = ShapeList()"
new_shape_list(s) ==
    [s EXCEPT !.shapes = <<>>, !.edge_color = <<>>, !.face_color = <<>>,
              !.dv_slice_key = <<>>]

\* the tail of the data setter, not reached when add has raised:
\* _update_dims, then the data event, which calls _set_editable()
update_dims_and_emit_data(s) ==
    IF s.error # "" THEN s ELSE set_editable(update_dims(s))

\* Shapes.data setter; the setter always adds with shape_type='rectangle'
data_setter(s, data) ==
    update_dims_and_emit_data(
        add(new_shape_list(finish_drawing(s)), data, "", "", NoneIdx))

\* Shapes.remove_selected
RECURSIVE remove_each(_, _)
remove_each(s, to_remove) ==
    IF to_remove = <<>> THEN s
    ELSE remove_each(ShapeList_remove(s, Head(to_remove)), Tail(to_remove))

Reverse(seq) == [i \in 1 .. Len(seq) |-> seq[Len(seq) + 1 - i]]

\* remove_selected, "if len(index) > 0": the rows of the removed shapes are
\* deleted from every property array and both color arrays
delete_rows(s, index) ==
    IF index # {}
    THEN [s EXCEPT
             !.properties = [k \in DOMAIN @ |-> DeleteRows(@[k], index)],
             !.edge_color = DeleteRows(@, index),
             !.face_color = DeleteRows(@, index)]
    ELSE s

\* Shapes.remove_selected
remove_selected(s) ==
    finish_drawing(selected_data_setter(
        delete_rows(remove_each(s, Reverse(SortedList(s.selected_data))),
                    s.selected_data),
        {}))

\* Shapes._copy_data
copy_data(s) ==
    LET index == SortedList(s.selected_data)
    IN  IF s.selected_data # {}
        THEN [s EXCEPT !.clipboard =
                 [full |-> TRUE,
                  data |-> Take(s.shapes, index),
                  edge_color |-> Take(s.edge_color, index),
                  face_color |-> Take(s.face_color, index),
                  properties |-> [k \in DOMAIN s.properties |->
                                     Take(s.properties[k], index)],
                  indices |-> indices(s.dims_point, s.dims_order,
                                      s.dims_ndisplay)]]
        ELSE [s EXCEPT !.clipboard = EmptyClipboard]

\* paste_offset with the slip of subtracting the wrong way round
paste_offset_reversed(s) ==
    LET nd == not_displayed(s.dims_order, s.dims_ndisplay)
    IN  [k \in 1 .. Len(nd) |->
            At(s.clipboard.indices, nd[k]) - At(s.dims_point, nd[k])]

\* the offset _paste_data computes: for every non-displayed axis, the current
\* slice position minus the slice position stored at copy time
paste_offset(s) ==
    LET nd == not_displayed(s.dims_order, s.dims_ndisplay)
    IN  [k \in 1 .. Len(nd) |->
            At(s.dims_point, nd[k]) - At(s.clipboard.indices, nd[k])]

\* "data[:, not_displayed] = data[:, not_displayed] + np.array(offset)"
shift_not_displayed(data, nd, offset) ==
    [v \in 1 .. Len(data) |->
        [a \in 1 .. Len(data[v]) |->
            IF \E k \in 1 .. Len(nd) : nd[k] = a - 1
            THEN data[v][a]
                 + offset[CHOOSE k \in 1 .. Len(nd) : nd[k] = a - 1]
            ELSE data[v][a]]]

RECURSIVE paste_loop(_, _)
paste_loop(s, i) ==
    IF i > Len(s.clipboard.data) THEN s
    ELSE LET shape == s.clipboard.data[i]
             data == shift_not_displayed(
                         shape.data,
                         not_displayed(s.dims_order, s.dims_ndisplay),
                         paste_offset(s))
         IN  paste_loop(ShapeList_add(s, [shape EXCEPT !.data = data],
                                      s.clipboard.edge_color[i],
                                      s.clipboard.face_color[i]),
                        i + 1)

\* Shapes.move_to_front
RECURSIVE raise_each(_, _, _)
raise_each(s, lst, z) ==
    IF lst = <<>> THEN s
    ELSE raise_each(ShapeList_update_z_index(s, Head(lst), z), Tail(lst), z)

\* move_to_front with the slip of leaving the z-indices as they are
move_to_front_keeps_z(s) == IF s.selected_data = {} THEN s ELSE refresh(s)

move_to_front(s) ==
    IF s.selected_data = {} THEN s
    ELSE refresh(raise_each(s, SortedList(s.selected_data),
                            Max(z_indices(s), 0) + 1))

\* _paste_data, "self._properties[k] = np.concatenate(...)"
paste_properties(s) ==
    [s EXCEPT !.properties =
        [k \in DOMAIN @ |-> @[k] \o s.clipboard.properties[k]]]

\* select_pasted with the slip of adding the pasted shapes to the selection
select_pasted_extends_selection(s, cur_shapes) ==
    selected_data_setter(
        s, s.selected_data
               \cup (cur_shapes .. (cur_shapes + Len(s.clipboard.data) - 1)))

\* _paste_data, "self.selected_data = set(range(cur_shapes, ...))"
select_pasted(s, cur_shapes) ==
    selected_data_setter(
        s, cur_shapes .. (cur_shapes + Len(s.clipboard.data) - 1))

\* Shapes._paste_data; subtracting a slice object (the clipboard was taken
\* while the axis was displayed) is a TypeError
paste_data(s) ==
    LET nd == not_displayed(s.dims_order, s.dims_ndisplay)
    IN  IF ~s.clipboard.full THEN s
        ELSE IF \E k \in 1 .. Len(nd) : At(s.clipboard.indices, nd[k]) = SliceAll
        THEN [s EXCEPT !.error = "TypeError"]
        ELSE move_to_front(
                 select_pasted(paste_loop(paste_properties(s), 1),
                               Len(s.shapes)))

\* Shapes.current_properties setter (with _update_properties true); the
\* selected rows are written in place before the properties setter validates
current_properties_setter(s, current_properties) ==
    LET s1 == [s EXCEPT !.current_properties = current_properties]
        s2 == [s1 EXCEPT !.properties =
                  [k \in DOMAIN @ |->
                      [i \in 1 .. Len(@[k]) |->
                          IF (i - 1) \in s.selected_data
                          THEN current_properties[k] ELSE @[k][i]]]]
    IN  IF s.selected_data # {} /\ s.mode \in {SELECT, PAN_ZOOM}
        THEN IF \E k \in DOMAIN s.properties :
                    Len(s.properties[k]) # Len(s.shapes)
             THEN [s2 EXCEPT !.error = "ValueError"]
             ELSE refresh_colors(s2, FALSE)
        ELSE s1

(* ---------------------------------------------------------------------- *)
(* Pointer gestures of the path / polygon modes                            *)
(* ---------------------------------------------------------------------- *)
\* the vertex under the cursor: displayed axes from the cursor position,
\* the other axes from the current slice position
cursor_vertex(s, position) == expand_shape(s, <<position>>)[1]

\* add_path_polygon, first click, after the add: the new shape is selected,
\* its second vertex follows the cursor, and creation starts
begin_creating(s) ==
    IF s.error # "" THEN s
    ELSE [selected_data_setter(s, {Len(s.shapes) - 1}) EXCEPT
             !.moving_value = <<Len(s.shapes) - 1, 1>>,
             !.is_creating = TRUE]

\* add_path_polygon, first click: a path of two vertices under the cursor is
\* added as a single (2, D) array
start_path(s, position) ==
    begin_creating(
        add(s, [kind |-> "single",
                items |-> <<[st |-> "path",
                             data |-> <<cursor_vertex(s, position),
                                        cursor_vertex(s, position)>>]>>],
            "", "", NoneIdx))

\* add_path_polygon, later clicks: a vertex is appended to the shape being
\* drawn, which becomes a polygon in ADD_POLYGON mode
add_vertex(s, position) ==
    LET index == s.moving_value[1]
        vertices == displayed_vertices_of(s, index)
                        \o <<cursor_vertex(s, position)>>
        new_type == IF s.mode = ADD_POLYGON THEN "polygon" ELSE ""
    IN  [ShapeList_edit(s, index, expand_shape(s, vertices), new_type) EXCEPT
            !.moving_value = <<index, s.moving_value[2] + 1>>]

\* Shapes._move in the branch of Mode.DIRECT, ADD_PATH and ADD_POLYGON
move(s, position) ==
    LET vertex == s.moving_value[2]
        index == s.moving_value[1]
        vertices == displayed_vertices_of(s, index)
        moved == [vertices EXCEPT ![vertex + 1] = cursor_vertex(s, position)]
        new_type == IF At(s.shapes, index).st = "rectangle"
                    THEN "polygon" ELSE ""
    IN  IF s.selected_data # {}
        THEN IF vertex # NoneIdx
             THEN IF At(s.shapes, index).st = "ellipse"
                  THEN [s EXCEPT !.is_moving = TRUE]
                  ELSE refresh(with_selected_box(ShapeList_edit(
                           [s EXCEPT !.is_moving = TRUE], index,
                           expand_shape(s, moved), new_type)))
             ELSE s
        ELSE [s EXCEPT !.is_selecting = TRUE,
                       !.drag_start = IF @ = NoneCoord THEN position ELSE @,
                       !.drag_box = <<IF s.drag_start = NoneCoord
                                      THEN position ELSE s.drag_start,
                                      position>>]

(* ---------------------------------------------------------------------- *)
(* Hit testing                                                             *)
(* ---------------------------------------------------------------------- *)
\* Layer.displayed_coordinates: the cursor position on the displayed axes
displayed_coordinates(s, position) ==
    LET axes == SubSeq(s.dims_order, Len(s.dims_order) - s.dims_ndisplay + 1,
                       Len(s.dims_order))
    IN  [k \in 1 .. Len(axes) |-> At(position, axes[k])]

\* a point lies in a box
in_box(coord, box) ==
    /\ Len(box) = 2
    /\ Len(box[1]) = Len(coord)
    /\ \A k \in 1 .. Len(coord) : box[1][k] <= coord[k] /\ coord[k] <= box[2][k]

\* ShapeList.inside(coord): the index of the displayed shape of highest
\* z-index that holds the point, the later of two of the same z-index, or
\* None; the fill of a shape is taken to be the box around it
inside(s, coord) ==
    LET holding == {i \in Idx(s.shapes) :
                       /\ IsDisplayed(s, At(s.shapes, i))
                       /\ in_box(coord, shape_box(s, i))}
    IN  IF holding = {} THEN NoneIdx
        ELSE CHOOSE i \in holding :
                 \A j \in holding :
                     \/ At(s.shapes, j).z < At(s.shapes, i).z
                     \/ At(s.shapes, j).z = At(s.shapes, i).z /\ j <= i

\* the corners of a box in the plane, by their place in the interaction
\* box: top left 0, top right 2, bottom right 4, bottom left 6
box_corners(box) ==
    IF Len(box) = 2 /\ Len(box[1]) = 2
    THEN (0 :> <<box[1][1], box[1][2]>>) @@ (2 :> <<box[1][1], box[2][2]>>)
         @@ (4 :> <<box[2][1], box[2][2]>>) @@ (6 :> <<box[2][1], box[1][2]>>)
    ELSE [v \in {} |-> <<>>]

\* _get_value in Mode.SELECT: the last vertex of the interaction box that is
\* under the cursor, with the first selected shape.  The vertices are taken
\* to be so small that one is under the cursor only where it is
on_box_vertex(s, coord) ==
    LET matches == {v \in DOMAIN box_corners(s.selected_box) :
                       box_corners(s.selected_box)[v] = coord}
    IN  IF matches = {} THEN NoneCoord
        ELSE <<CHOOSE i \in s.selected_data : \A j \in s.selected_data : i <= j,
               Max(matches, 0)>>

\* _get_value in Mode.DIRECT, VERTEX_INSERT and VERTEX_REMOVE: the last
\* vertex of a selected, displayed shape that is under the cursor
on_shape_vertex(s, coord) ==
    LET matches ==
            {<<i, v>> \in s.selected_data \X (0 .. (MaxVerts + 1)) :
                /\ v < Len(displayed_vertices_of(s, i))
                /\ data_displayed(s, <<At(displayed_vertices_of(s, i), v)>>)
                       = {coord}}
    IN  IF matches = {} THEN NoneCoord
        ELSE CHOOSE m \in matches :
                 \A n \in matches :
                     n[1] < m[1] \/ (n[1] = m[1] /\ n[2] <= m[2])

\* _get_value, "Check selected shapes"
on_selected(s, coord) ==
    IF s.selected_data = {} THEN NoneCoord
    ELSE IF s.mode = SELECT THEN on_box_vertex(s, coord)
    ELSE IF s.mode \in {DIRECT, VERTEX_INSERT, VERTEX_REMOVE}
    THEN on_shape_vertex(s, coord)
    ELSE NoneCoord

\* _get_value after the check of ndisplay: the value of a drag in progress,
\* else a vertex of the selection, else the shape under the cursor
value_in_2d(s, position) ==
    IF s.is_moving THEN s.moving_value
    ELSE IF on_selected(s, displayed_coordinates(s, position)) # NoneCoord
    THEN on_selected(s, displayed_coordinates(s, position))
    ELSE <<inside(s, displayed_coordinates(s, position)), NoneIdx>>

\* Shapes_get_value with the slip of testing for hits in 3-D as well
value_in_any_display(s, position) == value_in_2d(s, position)

\* Shapes._get_value
Shapes_get_value(s, position) ==
    IF s.dims_ndisplay = 3 THEN <<NoneIdx, NoneIdx>>
    ELSE value_in_2d(s, position)

\* Layer.get_value: None for a layer that is not visible
get_value(s, position) ==
    IF s.visible THEN Shapes_get_value(s, position) ELSE NoneCoord

\* the Layer.position setter: _update_coordinates() takes the value under
\* the cursor
position_setter(s, position) == [s EXCEPT !.hit = get_value(s, position)]

(* ---------------------------------------------------------------------- *)
(* State                                                                   *)
(* ---------------------------------------------------------------------- *)
VARIABLES
    shapes,                 \* _data_view.shapes with their z_index
    edge_color,             \* _data_view._edge_color, one row per shape
    face_color,             \* _data_view._face_color, one row per shape
    dv_slice_key,           \* _data_view.slice_key
    properties,             \* _properties: name -> array of per-shape values
    current_properties,     \* _current_properties
    current_edge_color,     \* _current_edge_color
    current_face_color,     \* _current_face_color
    selected_data,          \* _selected_data
    clipboard,              \* _clipboard
    mode,                   \* _mode
    editable,               \* _editable
    visible,                \* _visible
    cursor,                 \* _cursor
    interactive,            \* _interactive
    help,                   \* _help
    mouse_drag_callbacks,   \* registered drag handlers
    mouse_move_callbacks,   \* registered move handlers
    is_creating,            \* _is_creating
    is_moving,              \* _is_moving
    is_selecting,           \* _is_selecting
    moving_value,           \* _moving_value: (shape index, vertex index)
    drag_start,             \* _drag_start
    drag_box,               \* _drag_box
    dims_order,             \* dims.order
    dims_ndisplay,          \* dims.ndisplay
    dims_point,             \* dims.point: slice position of every axis
    display_order_stored,   \* _display_order_stored
    ndisplay_stored,        \* _ndisplay_stored
    color_mode,             \* _edge_color_mode, _face_color_mode
    color_property,         \* _edge_color_property, _face_color_property
    color_cycle,            \* _edge_color_cycle_values, _face_color_cycle_values
    color_cycle_pos,        \* how far each _<attribute>_color_cycle has run
    color_cycle_map,        \* edge_color_cycle_map, face_color_cycle_map
    contrast_limits,        \* _edge_contrast_limits, _face_contrast_limits
    selected_box,           \* _selected_box
    fixed_vertex,           \* _fixed_vertex: the pivot of a resize or rotation
    fixed_index,            \* _fixed_index: its place in the interaction box
    scale_factor,           \* scale_factor: data units per canvas pixel
    in_drag,                \* a press was handled and no release yet
    hit,                    \* get_value() at the last cursor position
    error,                  \* exception raised by the last call, "" if none
    layers,                 \* the LayerList: id, name and selected of each layer
    call_args,              \* arguments of the last call on the list or the box
    n_events,               \* pointer events handled so far
    labels,                 \* the Labels layer, with its dims and its histories
    dims,                   \* the Dims model
    edict,                  \* the EventedDict, its last result and a dict's
    lastOp                  \* name of the last operation called

vars == <<shapes, edge_color, face_color, dv_slice_key, properties,
          current_properties, current_edge_color, current_face_color,
          selected_data, clipboard, mode, editable, visible, cursor,
          interactive, help, mouse_drag_callbacks, mouse_move_callbacks,
          is_creating, is_moving, is_selecting, moving_value, drag_start,
          drag_box, dims_order, dims_ndisplay, dims_point,
          display_order_stored, ndisplay_stored, color_mode, color_property,
          color_cycle, color_cycle_pos, color_cycle_map, contrast_limits,
          selected_box, fixed_vertex, fixed_index, scale_factor, in_drag,
          hit, error, layers, call_args, n_events, labels, dims, edict,
          lastOp>>

\* the objects next to the Shapes layer and the list
others == <<labels, dims, edict>>

\* an object the specification at hand does not construct
Unbuilt == <<>>

\* the layer as the record the handlers work on, before the call
Layer ==
    [shapes |-> shapes, edge_color |-> edge_color, face_color |-> face_color,
     dv_slice_key |-> dv_slice_key, properties |-> properties,
     current_properties |-> current_properties,
     current_edge_color |-> current_edge_color,
     current_face_color |-> current_face_color,
     selected_data |-> selected_data, clipboard |-> clipboard, mode |-> mode,
     editable |-> editable, visible |-> visible, cursor |-> cursor,
     interactive |-> interactive, help |-> help,
     mouse_drag_callbacks |-> mouse_drag_callbacks,
     mouse_move_callbacks |-> mouse_move_callbacks,
     is_creating |-> is_creating, is_moving |-> is_moving,
     is_selecting |-> is_selecting, moving_value |-> moving_value,
     drag_start |-> drag_start, drag_box |-> drag_box,
     dims_order |-> dims_order, dims_ndisplay |-> dims_ndisplay,
     dims_point |-> dims_point,
     display_order_stored |-> display_order_stored,
     ndisplay_stored |-> ndisplay_stored, color_mode |-> color_mode,
     color_property |-> color_property, color_cycle |-> color_cycle,
     color_cycle_pos |-> color_cycle_pos,
     color_cycle_map |-> color_cycle_map,
     contrast_limits |-> contrast_limits, selected_box |-> selected_box,
     fixed_vertex |-> fixed_vertex, fixed_index |-> fixed_index,
     scale_factor |-> scale_factor, in_drag |-> in_drag,
     hit |-> hit, error |-> ""]

\* the layer after the call, evaluated once
LayerBecomes(s) ==
    \E t \in {s} :
        /\ shapes' = t.shapes
        /\ edge_color' = t.edge_color
        /\ face_color' = t.face_color
        /\ dv_slice_key' = t.dv_slice_key
        /\ properties' = t.properties
        /\ current_properties' = t.current_properties
        /\ current_edge_color' = t.current_edge_color
        /\ current_face_color' = t.current_face_color
        /\ selected_data' = t.selected_data
        /\ clipboard' = t.clipboard
        /\ mode' = t.mode
        /\ editable' = t.editable
        /\ visible' = t.visible
        /\ cursor' = t.cursor
        /\ interactive' = t.interactive
        /\ help' = t.help
        /\ mouse_drag_callbacks' = t.mouse_drag_callbacks
        /\ mouse_move_callbacks' = t.mouse_move_callbacks
        /\ is_creating' = t.is_creating
        /\ is_moving' = t.is_moving
        /\ is_selecting' = t.is_selecting
        /\ moving_value' = t.moving_value
        /\ drag_start' = t.drag_start
        /\ drag_box' = t.drag_box
        /\ dims_order' = t.dims_order
        /\ dims_ndisplay' = t.dims_ndisplay
        /\ dims_point' = t.dims_point
        /\ display_order_stored' = t.display_order_stored
        /\ ndisplay_stored' = t.ndisplay_stored
        /\ color_mode' = t.color_mode
        /\ color_property' = t.color_property
        /\ color_cycle' = t.color_cycle
        /\ color_cycle_pos' = t.color_cycle_pos
        /\ color_cycle_map' = t.color_cycle_map
        /\ contrast_limits' = t.contrast_limits
        /\ selected_box' = t.selected_box
        /\ fixed_vertex' = t.fixed_vertex
        /\ fixed_index' = t.fixed_index
        /\ scale_factor' = t.scale_factor
        /\ in_drag' = t.in_drag
        /\ hit' = t.hit
        /\ error' = t.error

\* a call on the layer
Becomes(s, op) ==
    /\ LayerBecomes(s)
    /\ layers' = layers
    /\ call_args' = call_args
    /\ n_events' = n_events
    /\ UNCHANGED others
    /\ lastOp' = op

\* a pointer event handled by the layer
PointerBecomes(s, op) ==
    /\ LayerBecomes(s)
    /\ layers' = layers
    /\ call_args' = call_args
    /\ n_events' = n_events + 1
    /\ UNCHANGED others
    /\ lastOp' = op

(* ---------------------------------------------------------------------- *)
(* Inputs                                                                  *)
(* ---------------------------------------------------------------------- *)
Rect(p) == << <<p, 0, 0>>, <<p, 0, 1>>, <<p, 1, 1>>, <<p, 1, 0>> >>

\* shapes offered to add: a line of the plane 0 and a line with one vertex
\* too many
GoodShape == [st |-> "line", data |-> << <<0, 0, 0>>, <<0, 1, 1>> >>]

BadShape ==
    [st |-> "line", data |-> << <<0, 0, 0>>, <<0, 1, 1>>, <<0, 1, 0>> >>]

\* data as add accepts it: a list of shapes, or a single (N, D) array
AddInputs ==
    {[kind |-> "list", items |-> <<GoodShape>>],
     [kind |-> "list", items |-> <<BadShape>>],
     [kind |-> "list", items |-> <<GoodShape, BadShape>>],
     [kind |-> "list", items |-> <<GoodShape, GoodShape>>],
     [kind |-> "single", items |-> <<GoodShape>>],
     [kind |-> "single", items |-> <<BadShape>>]}

\* data as the data setter accepts it (every entry becomes a rectangle):
\* BadData holds a rectangle of three vertices
BadData ==
    [kind |-> "list",
     items |-> <<[st |-> "rectangle", data |-> Rect(0)],
                 [st |-> "rectangle",
                  data |-> << <<0, 0, 0>>, <<0, 1, 1>>, <<0, 1, 0>> >>]>>]

DataInputs ==
    {[kind |-> "list", items |-> <<>>],
     [kind |-> "list", items |-> <<[st |-> "rectangle", data |-> Rect(1)]>>],
     BadData}

ColorInputs == {""}

ZInputs == {NoneIdx, 0}

Positions == {<<1, 1, 1>>}

\* where the cursor is held: where the clicks fall, and away from it
HoverPositions == {<<1, 1, 1>>, <<0, 0, 0>>}

\* the axes whose slider is moved
SliderAxes == {0}

\* the properties a colored layer is built with
ColorPropNames == {"size", "kind"}

\* what edge_color / face_color are set to: the name of a property of the
\* layer, or a color
ColorValues == {"size", "kind", "red"}

\* a cycle of three colors
ThreeColors == <<"c0", "c1", "c2">>

\* contrast limits that no column of the model has as its (min, max)
PinnedLimits == <<0, 3>>

\* the name an assignment to edge_color_mode / face_color_mode is logged by
color_mode_op(new_mode, a) ==
    CASE a = "edge" /\ new_mode = DIRECT_COLOR -> "edge_color_mode = direct"
      [] a = "edge" /\ new_mode = CYCLE -> "edge_color_mode = cycle"
      [] a = "edge" /\ new_mode = COLORMAP -> "edge_color_mode = colormap"
      [] a = "face" /\ new_mode = DIRECT_COLOR -> "face_color_mode = direct"
      [] a = "face" /\ new_mode = CYCLE -> "face_color_mode = cycle"
      [] OTHER -> "face_color_mode = colormap"

\* the caps that keep the model finite
FitsShapes(n) == Len(shapes) + n <= MaxShapes

FitsProps(n) == \A k \in DOMAIN properties : Len(properties[k]) + n <= MaxRows

FitsColors(n) == Len(edge_color) + n <= MaxRows /\ Len(face_color) + n <= MaxRows

FitsZ == Max({shapes[i].z : i \in 1 .. Len(shapes)}, -1) + 1 <= MaxZ

(* ---------------------------------------------------------------------- *)
(* Initial state: Shapes(np.empty((0, 0, 3))), with or without a property  *)
(* ---------------------------------------------------------------------- *)
\* the fields of a layer just constructed
new_layer(names) ==
    [shapes |-> <<>>,
     edge_color |-> <<>>,
     face_color |-> <<>>,
     dv_slice_key |-> <<0>>,
     properties |-> [k \in names |-> <<>>],
     current_properties |-> [k \in names |-> property_choices(k)[1]],
     current_edge_color |-> "black",
     current_face_color |-> "white",
     selected_data |-> {},
     clipboard |-> EmptyClipboard,
     mode |-> PAN_ZOOM,
     editable |-> TRUE,
     visible |-> TRUE,
     cursor |-> "standard",
     interactive |-> TRUE,
     help |-> "enter a selection mode to edit shape properties",
     mouse_drag_callbacks |-> <<>>,
     mouse_move_callbacks |-> <<>>,
     is_creating |-> FALSE,
     is_moving |-> FALSE,
     is_selecting |-> FALSE,
     moving_value |-> <<NoneIdx, NoneIdx>>,
     drag_start |-> NoneCoord,
     drag_box |-> NoneCoord,
     dims_order |-> <<0, 1, 2>>,
     dims_ndisplay |-> 2,
     dims_point |-> <<0, 0, 0>>,
     display_order_stored |-> <<0, 1, 2>>,
     ndisplay_stored |-> 2,
     color_mode |-> [a \in Attributes |-> DIRECT_COLOR],
     color_property |-> [a \in Attributes |-> ""],
     color_cycle |-> [a \in Attributes |-> DEFAULT_COLOR_CYCLE],
     color_cycle_pos |-> [a \in Attributes |-> 0],
     color_cycle_map |-> [a \in Attributes |-> EmptyMap],
     contrast_limits |-> [a \in Attributes |-> NoLimits],
     selected_box |-> NoneCoord,
     fixed_vertex |-> NoneCoord,
     fixed_index |-> 0,
     scale_factor |-> 1,
     in_drag |-> FALSE,
     hit |-> <<NoneIdx, NoneIdx>>,
     error |-> ""]

\* the variables of the layer hold the record s
StateIs(s) ==
    /\ shapes = s.shapes
    /\ edge_color = s.edge_color
    /\ face_color = s.face_color
    /\ dv_slice_key = s.dv_slice_key
    /\ properties = s.properties
    /\ current_properties = s.current_properties
    /\ current_edge_color = s.current_edge_color
    /\ current_face_color = s.current_face_color
    /\ selected_data = s.selected_data
    /\ clipboard = s.clipboard
    /\ mode = s.mode
    /\ editable = s.editable
    /\ visible = s.visible
    /\ cursor = s.cursor
    /\ interactive = s.interactive
    /\ help = s.help
    /\ mouse_drag_callbacks = s.mouse_drag_callbacks
    /\ mouse_move_callbacks = s.mouse_move_callbacks
    /\ is_creating = s.is_creating
    /\ is_moving = s.is_moving
    /\ is_selecting = s.is_selecting
    /\ moving_value = s.moving_value
    /\ drag_start = s.drag_start
    /\ drag_box = s.drag_box
    /\ dims_order = s.dims_order
    /\ dims_ndisplay = s.dims_ndisplay
    /\ dims_point = s.dims_point
    /\ display_order_stored = s.display_order_stored
    /\ ndisplay_stored = s.ndisplay_stored
    /\ color_mode = s.color_mode
    /\ color_property = s.color_property
    /\ color_cycle = s.color_cycle
    /\ color_cycle_pos = s.color_cycle_pos
    /\ color_cycle_map = s.color_cycle_map
    /\ contrast_limits = s.contrast_limits
    /\ selected_box = s.selected_box
    /\ fixed_vertex = s.fixed_vertex
    /\ fixed_index = s.fixed_index
    /\ scale_factor = s.scale_factor
    /\ in_drag = s.in_drag
    /\ hit = s.hit
    /\ error = s.error

InitLayer(names) ==
    /\ StateIs(new_layer(names))
    /\ layers = <<>>
    /\ call_args = <<>>
    /\ n_events = 0
    /\ labels = Unbuilt
    /\ dims = Unbuilt
    /\ edict = Unbuilt
    /\ lastOp = "init"

\* Shapes(properties={...}) or Shapes()
Init == \E names \in SUBSET PropNames : InitLayer(names)

\* Shapes(): a layer without properties
InitNoProperties == InitLayer({})

\* Shapes(properties={...}) with any of the columns size and kind
InitColor == \E names \in SUBSET ColorPropNames : InitLayer(names)

(* ---------------------------------------------------------------------- *)
(* Operations                                                              *)
(* ---------------------------------------------------------------------- *)
\* layer.add(data, shape_type=, edge_color=, face_color=, z_index=)
Add(inputs, zs) ==
    \E data \in inputs, c \in ColorInputs, z \in zs :
        /\ FitsShapes(Len(data.items))
        /\ FitsProps(n_new_shapes(data))
        /\ FitsColors(Len(data.items))
        /\ FitsZ
        /\ Becomes(add(Layer, data, c, c, z), "add")

\* layer.data = data
SetData(inputs) ==
    \E data \in inputs :
        /\ Len(data.items) <= MaxShapes
        /\ FitsProps(Len(data.items))
        /\ Becomes(data_setter(Layer, data), "data")

\* layer.remove_selected()
RemoveSelected == Becomes(remove_selected(Layer), "remove_selected")

\* layer._copy_data()
Copy == Becomes(copy_data(Layer), "copy")

\* layer._paste_data()
Paste ==
    /\ clipboard.full
    /\ FitsShapes(Len(clipboard.data))
    /\ FitsProps(Len(clipboard.data))
    /\ FitsColors(Len(clipboard.data))
    /\ FitsZ
    /\ {i \in 1 .. Len(clipboard.data) : clipboard.data[i].z >= MaxZ} = {}
    /\ \E s \in {paste_data(Layer)} :
           /\ \A i \in 1 .. Len(s.shapes) : \A v \in 1 .. Len(s.shapes[i].data) :
                 \A a \in 1 .. ndim :
                     s.shapes[i].data[v][a] \in (0 - MaxStep) .. (2 * MaxStep)
           /\ Becomes(s, "paste")

\* layer.selected_data = selected, with indices of existing shapes; while a
\* shape is being drawn the selection is driven by the pointer handlers
SetSelected ==
    \E selected \in SUBSET Idx(shapes) :
        /\ ~is_creating
        /\ selected # selected_data
        /\ Becomes(selected_data_setter(Layer, selected), "selected_data")

\* layer.current_properties = {name: value}
SetCurrentProperties ==
    \E cp \in [DOMAIN properties -> PropValues] :
        /\ cp # current_properties
        /\ Becomes(current_properties_setter(Layer, cp), "current_properties")

\* layer.current_properties = {...} with one column set to another of its
\* values
SetCurrentChoice ==
    \E k \in DOMAIN properties :
        \E i \in 1 .. Len(property_choices(k)) :
            /\ property_choices(k)[i] # current_properties[k]
            /\ Becomes(current_properties_setter(
                           Layer,
                           [current_properties EXCEPT
                                ![k] = property_choices(k)[i]]),
                       "current_properties")

\* layer.edge_color_mode = color_mode, layer.face_color_mode = color_mode
SetColorMode(attributes, modes) ==
    \E a \in attributes, new_mode \in modes :
        Becomes(set_color_mode(Layer, new_mode, a),
                color_mode_op(new_mode, a))

\* layer.edge_color = color, layer.face_color = color
SetColor(attributes) ==
    \E a \in attributes, color \in ColorValues :
        /\ color \in DOMAIN properties \cup {"red"}
        /\ Becomes(set_color(Layer, color, a), "color")

\* layer.edge_color_cycle = cycle, layer.face_color_cycle = cycle
SetColorCycle(attributes) ==
    \E a \in attributes :
        Becomes(set_color_cycle(Layer, ThreeColors, a), "color_cycle")

\* layer.edge_contrast_limits = limits, layer.face_contrast_limits = limits
SetContrastLimits(attributes) ==
    \E a \in attributes, limits \in {NoLimits, PinnedLimits} :
        /\ limits # contrast_limits[a]
        /\ Becomes(set_contrast_limits(Layer, limits, a), "contrast_limits")

\* layer.refresh_colors(update_color_mapping=False)
RefreshColors == Becomes(refresh_colors(Layer, FALSE), "refresh_colors")

\* layer.refresh_colors(update_color_mapping=True)
RebuildColors == Becomes(refresh_colors(Layer, TRUE), "rebuild_colors")

\* layer.mode = requested
SetMode(modes) ==
    \E requested \in modes :
        Becomes(mode_setter(Layer, requested), "mode")

\* layer.editable = value
SetEditable ==
    \E value \in BOOLEAN :
        /\ value # editable
        /\ Becomes(editable_setter(Layer, value), "editable")

\* layer.visible = value
SetVisible ==
    \E value \in BOOLEAN :
        /\ value # visible
        /\ Becomes(visible_setter(Layer, value), "visible")

\* the explicit finish signal: the deselect event or the finish key
FinishDrawing == Becomes(finish_drawing(Layer), "finish_drawing")

\* a click in ADD_PATH or ADD_POLYGON mode (add_path_polygon); a later click
\* reads _get_value(), which is _moving_value once the pointer has moved
Click ==
    \E position \in Positions :
        /\ visible
        /\ "add_path_polygon" \in
               {mouse_drag_callbacks[i] : i \in 1 .. Len(mouse_drag_callbacks)}
        /\ IF ~is_creating
           THEN /\ FitsShapes(1)
                /\ FitsProps(2)
                /\ FitsColors(1)
                /\ FitsZ
                /\ Becomes(start_path(Layer, position), "click")
           ELSE /\ is_moving
                /\ displayed_vertices_of(Layer, moving_value[1]) # <<>>
                /\ Len(displayed_vertices_of(Layer, moving_value[1])) < MaxVerts
                /\ Becomes(add_vertex(Layer, position), "click")

\* layer.position = position: the cursor is over the canvas
Hover ==
    \E position \in HoverPositions :
        Becomes(position_setter(Layer, position), "position")

\* a pointer move while a shape is being drawn (add_path_polygon_creating)
Move ==
    \E position \in Positions :
        /\ visible
        /\ "add_path_polygon_creating" \in
               {mouse_move_callbacks[i] : i \in 1 .. Len(mouse_move_callbacks)}
        /\ is_creating
        /\ selected_data # {} =>
               /\ moving_value[2] # NoneIdx
               /\ moving_value[2] <
                      Len(displayed_vertices_of(Layer, moving_value[1]))
        /\ Becomes(move(Layer, position), "move")

\* dims.set_point(axis, value) from the slider of a non-displayed axis: the
\* axis event calls refresh
SetPoint ==
    \E axis \in SliderAxes, value \in 0 .. MaxStep :
        /\ axis \notin displayed(dims_order, dims_ndisplay)
        /\ dims_point[axis + 1] # value
        /\ Becomes(refresh([Layer EXCEPT !.dims_point[axis + 1] = value]),
                   "set_point")

\* dims.order = order: the order event calls refresh, then _update_dims
SetOrder ==
    \E order \in Orders :
        /\ order # dims_order
        /\ Becomes(update_dims(refresh([Layer EXCEPT !.dims_order = order])),
                   "order")

\* dims.ndisplay = ndisplay: the ndisplay event calls _set_editable(), then
\* _update_dims
SetNdisplay ==
    \E ndisplay \in {2, 3} :
        /\ ndisplay # dims_ndisplay
        /\ Becomes(update_dims(set_editable(
                       [Layer EXCEPT !.dims_ndisplay = ndisplay])),
                   "ndisplay")

(* ---------------------------------------------------------------------- *)
(* Specifications                                                          *)
(* ---------------------------------------------------------------------- *)
\* the collection: every way shapes, colors and properties are added or
\* removed, in the modes that add or edit them
Next ==
    \/ Add(AddInputs, ZInputs)
    \/ SetData(DataInputs)
    \/ RemoveSelected
    \/ SetSelected
    \/ SetCurrentProperties
    \/ SetMode({PAN_ZOOM, ADD_PATH})
    \/ FinishDrawing
    \/ Click

Spec == Init /\ [][Next]_vars

\* the mode state machine: every mode, with editability, visibility and
\* ndisplay changing under it
NextMode ==
    \/ SetMode(Mode)
    \/ SetEditable
    \/ SetVisible
    \/ SetNdisplay
    \/ FinishDrawing
    \/ Click

SpecMode == InitNoProperties /\ [][NextMode]_vars

\* the drawing of paths and polygons: clicks, pointer moves, the finish
\* signal, and changes among all modes
NextDraw ==
    \/ SetMode(Mode)
    \/ SetEditable
    \/ FinishDrawing
    \/ Click
    \/ Move

SpecDraw == InitNoProperties /\ [][NextDraw]_vars

\* the view against the selection: slice position, axis order, ndisplay and
\* visibility, with a data assignment that raises
NextView ==
    \/ Add({[kind |-> "list", items |-> <<GoodShape>>]}, {NoneIdx})
    \/ SetData({BadData})
    \/ SetSelected
    \/ SetPoint
    \/ SetOrder
    \/ SetNdisplay
    \/ SetVisible

SpecView == InitNoProperties /\ [][NextView]_vars

\* the view against the clipboard: slice position, axis order, ndisplay and
\* visibility
NextClip ==
    \/ Add({[kind |-> "list", items |-> <<GoodShape>>]}, {NoneIdx})
    \/ SetSelected
    \/ Copy
    \/ SetPoint
    \/ SetOrder
    \/ SetNdisplay
    \/ SetVisible

SpecClip == InitNoProperties /\ [][NextClip]_vars

\* copy and paste across slice positions and ndisplay, on a shown or hidden
\* layer
NextPaste ==
    \/ Add({[kind |-> "list", items |-> <<GoodShape>>]}, {NoneIdx})
    \/ SetSelected
    \/ Copy
    \/ Paste
    \/ SetPoint
    \/ SetNdisplay
    \/ SetVisible

SpecPaste == InitNoProperties /\ [][NextPaste]_vars

\* the color cycle: the face colors of the lines follow the column size
\* through a cycle, while the current value, the mode and the cycle change
NextCycle ==
    \/ Add({[kind |-> "list", items |-> <<GoodShape>>]}, {NoneIdx})
    \/ SetCurrentChoice
    \/ SetColorMode({"face"}, {DIRECT_COLOR, CYCLE})
    \/ SetColorCycle({"face"})
    \/ RefreshColors
    \/ RebuildColors

SpecCycle == InitLayer({"size"}) /\ [][NextCycle]_vars

\* the color modes: both attributes switch among all modes, over layers
\* with and without properties
NextColorMode ==
    \/ Add({[kind |-> "list", items |-> <<GoodShape>>]}, {NoneIdx})
    \/ SetColorMode(Attributes, ColorMode)
    \/ SetColor({"face"})
    \/ RefreshColors

SpecColorMode == InitColor /\ [][NextColorMode]_vars

\* the colormap: the face colors follow the column size through a colormap
\* whose contrast limits are set or left to the layer, next to edge colors
\* that follow a cycle
NextColormap ==
    \/ Add({[kind |-> "list", items |-> <<GoodShape>>]}, {NoneIdx})
    \/ SetCurrentChoice
    \/ SetColorMode({"face"}, {COLORMAP})
    \/ SetColorMode({"edge"}, {CYCLE})
    \/ SetColorCycle({"edge"})
    \/ SetContrastLimits({"face"})
    \/ RefreshColors

SpecColormap == InitLayer({"size"}) /\ [][NextColormap]_vars

\* the cursor: it moves over a layer whose shapes are drawn, in two and in
\* three displayed dimensions
NextHit ==
    \/ SetMode({SELECT, ADD_PATH})
    \/ SetEditable
    \/ SetNdisplay
    \/ Click
    \/ Move
    \/ Hover

SpecHit == InitNoProperties /\ [][NextHit]_vars

\* the interaction box: shapes are added, selected, drawn and removed while
\* the slice and the number of displayed dimensions change
NextBox ==
    \/ Add({[kind |-> "list", items |-> <<GoodShape>>]}, {NoneIdx})
    \/ SetSelected
    \/ RemoveSelected
    \/ SetMode({SELECT, ADD_PATH})
    \/ SetNdisplay
    \/ SetPoint
    \/ Click
    \/ Move

SpecBox == InitNoProperties /\ [][NextBox]_vars

\* the selection against the mode: shapes are added and selected while the
\* mode changes among the draw modes and PAN_ZOOM, and the slice position
\* and the visibility change
\* the z order of added shapes: shapes are added with and without a z_index,
\* selected and removed; call_args keeps the z_index of the last add
ExplicitZInputs == {NoneIdx, 0, MaxZ}

\* layer.add(data, z_index=z_index)
AddAt ==
    \E z \in ExplicitZInputs :
        /\ FitsShapes(1)
        /\ FitsProps(1)
        /\ FitsColors(1)
        /\ FitsZ
        /\ LayerBecomes(add(Layer, [kind |-> "list", items |-> <<GoodShape>>],
                            "", "", z))
        /\ layers' = layers
        /\ call_args' = <<z>>
        /\ n_events' = n_events
        /\ UNCHANGED others
        /\ lastOp' = "add(z_index)"

NextZIndex ==
    \/ AddAt
    \/ SetSelected
    \/ RemoveSelected
    \/ SetVisible

SpecZIndex == InitNoProperties /\ [][NextZIndex]_vars

NextSelectMode ==
    \/ Add({[kind |-> "list", items |-> <<GoodShape>>]}, {NoneIdx})
    \/ SetSelected
    \/ SetMode(draw_modes \cup {PAN_ZOOM})
    \/ SetPoint
    \/ SetVisible

SpecSelectMode == InitNoProperties /\ [][NextSelectMode]_vars

\* the selection against the shapes: the data is replaced, shapes are
\* selected, removed, copied and pasted, and paths are drawn and discarded
NextSelection ==
    \/ SetData({[kind |-> "list",
                 items |-> <<[st |-> "rectangle", data |-> Rect(1)]>>]})
    \/ SetSelected
    \/ RemoveSelected
    \/ Copy
    \/ Paste
    \/ SetMode({ADD_PATH})
    \/ Click
    \/ FinishDrawing

SpecSelection == InitNoProperties /\ [][NextSelection]_vars

(* ---------------------------------------------------------------------- *)
(* The interaction box of a selection, in fractions                        *)
(* ---------------------------------------------------------------------- *)
\* a coordinate of the box is a fraction <<numerator, denominator>> in
\* lowest terms with a positive denominator; <<0, 0>> is NaN, the value of
\* 0 / 0, which every operation hands on and no comparison holds for
NaN == <<0, 0>>

IsNaN(a) == a[2] = 0

Abs(n) == IF n < 0 THEN 0 - n ELSE n

RECURSIVE GCD(_, _)
GCD(a, b) == IF b = 0 THEN a ELSE GCD(b, a % b)

Frac(n, d) ==
    IF d = 0 THEN NaN
    ELSE LET g == GCD(Abs(n), Abs(d))
         IN  IF d < 0 THEN <<(0 - n) \div g, (0 - d) \div g>>
             ELSE <<n \div g, d \div g>>

Whole(n) == <<n, 1>>

QAdd(a, b) ==
    IF IsNaN(a) \/ IsNaN(b) THEN NaN
    ELSE Frac(a[1] * b[2] + b[1] * a[2], a[2] * b[2])

QSub(a, b) ==
    IF IsNaN(a) \/ IsNaN(b) THEN NaN
    ELSE Frac(a[1] * b[2] - b[1] * a[2], a[2] * b[2])

QMul(a, b) ==
    IF IsNaN(a) \/ IsNaN(b) THEN NaN ELSE Frac(a[1] * b[1], a[2] * b[2])

\* a / b; the divisions of the code by zero are all of zero
QDiv(a, b) ==
    IF IsNaN(a) \/ IsNaN(b) THEN NaN ELSE Frac(a[1] * b[2], a[2] * b[1])

QNeg(a) == IF IsNaN(a) THEN NaN ELSE <<0 - a[1], a[2]>>

QAbs(a) == <<Abs(a[1]), a[2]>>

QLess(a, b) == ~IsNaN(a) /\ ~IsNaN(b) /\ a[1] * b[2] < b[1] * a[2]

QEq(a, b) == ~IsNaN(a) /\ ~IsNaN(b) /\ a = b

\* points and vectors of the plane
Pt(x, y) == <<Whole(x), Whole(y)>>

VAdd(u, v) == <<QAdd(u[1], v[1]), QAdd(u[2], v[2])>>

VSub(u, v) == <<QSub(u[1], v[1]), QSub(u[2], v[2])>>

VScale(k, v) == <<QMul(k, v[1]), QMul(k, v[2])>>

VHalf(u, v) == VScale(Frac(1, 2), VAdd(u, v))

\* u @ v
Dot(u, v) == QAdd(QMul(u[1], v[1]), QMul(u[2], v[2]))

\* np.all(u == v)
VEq(u, v) == QEq(u[1], v[1]) /\ QEq(u[2], v[2])

\* np.linalg.norm of a vector that lies along an axis (the boxes of the
\* model are turned by quarter turns only)
norm(v) ==
    IF QEq(v[1], Whole(0)) THEN QAbs(v[2])
    ELSE IF QEq(v[2], Whole(0)) THEN QAbs(v[1])
    ELSE NaN

\* transform @ v for a 2 x 2 matrix
MatVec(m, v) == <<Dot(m[1], v), Dot(m[2], v)>>

\* a @ b for 2 x 2 matrices
MatMul(a, b) ==
    << <<Dot(a[1], <<b[1][1], b[2][1]>>), Dot(a[1], <<b[1][2], b[2][2]>>)>>,
       <<Dot(a[2], <<b[1][1], b[2][1]>>), Dot(a[2], <<b[1][2], b[2][2]>>)>> >>

\* np.cos(np.radians(angle)) and np.sin(np.radians(angle)) for an angle in
\* whole degrees: quarter turns, and the angle of the 3-4-5 triangle, taken
\* as 53 degrees
CosDeg(angle) ==
    IF IsNaN(angle) THEN NaN
    ELSE CASE angle[1] % 360 = 0 -> Whole(1)
           [] angle[1] % 360 = 180 -> Whole(0 - 1)
           [] angle[1] % 360 \in {90, 270} -> Whole(0)
           [] angle[1] % 360 \in {53, 307} -> Frac(3, 5)
           [] OTHER -> NaN

SinDeg(angle) ==
    IF IsNaN(angle) THEN NaN
    ELSE CASE angle[1] % 360 \in {0, 180} -> Whole(0)
           [] angle[1] % 360 = 90 -> Whole(1)
           [] angle[1] % 360 = 270 -> Whole(0 - 1)
           [] angle[1] % 360 = 53 -> Frac(4, 5)
           [] angle[1] % 360 = 307 -> Frac(0 - 4, 5)
           [] OTHER -> NaN

\* -np.degrees(np.arctan2(v[0], -v[1])) of a vector along an axis; of the
\* zero vector, whose entries are +0.0, it is -180
neg_arctan2(v) ==
    IF IsNaN(v[1]) \/ IsNaN(v[2]) THEN NaN
    ELSE IF v[1][1] = 0
    THEN (IF v[2][1] < 0 THEN Whole(0) ELSE Whole(0 - 180))
    ELSE IF v[1][1] > 0 THEN Whole(0 - 90) ELSE Whole(90)

\* the places of the points in the interaction box (Box)
Box ==
    [TOP_LEFT |-> 0, LEFT_CENTER |-> 1, BOTTOM_LEFT |-> 2, BOTTOM_CENTER |-> 3,
     BOTTOM_RIGHT |-> 4, RIGHT_CENTER |-> 5, TOP_RIGHT |-> 6, TOP_CENTER |-> 7,
     CENTER |-> 8, HANDLE |-> 9, LEN |-> 8]

\* Shapes._vertex_size
vertex_size == 10

\* Shapes._rotation_handle_length
rotation_handle_length == 20

\* create_box as the 9 x 2 array: the corners and the midpoints in turn
\* from the corner of the lowest coordinates, then the center
box_array(lohi) ==
    LET tl == Pt(lohi[1][1], lohi[1][2])
        tr == Pt(lohi[2][1], lohi[1][2])
        br == Pt(lohi[2][1], lohi[2][2])
        bl == Pt(lohi[1][1], lohi[2][2])
    IN  <<tl, VHalf(tl, tr), tr, VHalf(tr, br), br, VHalf(br, bl), bl,
          VHalf(bl, tl), VHalf(tl, br)>>

\* the handle length in data units at a scale factor
handle_length(factor) == Whole(rotation_handle_length * factor)

\* interaction_box, "if box is not None": the rotation handle is appended,
\* off the top center by the handle length when the box has a height
append_handle(box, factor) ==
    LET up == VSub(At(box, Box.BOTTOM_LEFT), At(box, Box.TOP_LEFT))
    IN  Append(box,
            IF QLess(Whole(0), norm(up))
            THEN VSub(At(box, Box.TOP_CENTER),
                      VScale(QDiv(handle_length(factor), norm(up)), up))
            ELSE At(box, Box.TOP_CENTER))

\* the handle set at the handle length off the top center, along the line
\* from the top center to where the handle is
place_handle(box, factor) ==
    IF ~VEq(At(box, Box.TOP_CENTER), At(box, Box.HANDLE))
    THEN LET handle_vec == VSub(At(box, Box.HANDLE), At(box, Box.TOP_CENTER))
         IN  [box EXCEPT ![Box.HANDLE + 1] =
                 VAdd(At(box, Box.TOP_CENTER),
                      VScale(QDiv(handle_length(factor), norm(handle_vec)),
                             handle_vec))]
    ELSE box

\* rotate_box with the slip of not moving the box back to the center
rotate_box_off_center(box, angle, center) ==
    [i \in 1 .. Len(box) |->
        MatVec(<< <<CosDeg(angle), SinDeg(angle)>>,
                  <<QNeg(SinDeg(angle)), CosDeg(angle)>> >>,
               VSub(box[i], center))]

\* Shapes._rotate_box(angle, center)
rotate_box(box, angle, center) ==
    [i \in 1 .. Len(box) |->
        VAdd(MatVec(<< <<CosDeg(angle), SinDeg(angle)>>,
                       <<QNeg(SinDeg(angle)), CosDeg(angle)>> >>,
                    VSub(box[i], center)),
             center)]

\* Shapes._scale_box(scale, center) at a scale factor
scale_box(box, scale, center, factor) ==
    LET scaled == [i \in 1 .. Len(box) |->
                      <<QMul(QSub(box[i][1], center[1]), scale[1]),
                        QMul(QSub(box[i][2], center[2]), scale[2])>>]
        placed == place_handle(scaled, factor)
    IN  [i \in 1 .. Len(box) |-> VAdd(placed[i], center)]

\* Shapes._transform_box(transform, center) at a scale factor
transform_box(box, transform, center, factor) ==
    LET moved == [i \in 1 .. Len(box) |->
                     MatVec(transform, VSub(box[i], center))]
        placed == place_handle(moved, factor)
    IN  [i \in 1 .. Len(box) |-> VAdd(placed[i], center)]

(* ---------------------------------------------------------------------- *)
(* Dragging the selection: Shapes._move in the modes that select           *)
(* ---------------------------------------------------------------------- *)
\* the moves of the vertices of the selected shapes (ShapeList.shift, scale,
\* transform and rotate) are left out: the box is moved by the layer itself

\* interaction_box, "if box is not None": the box of the selection is kept
\* with its nine points and the handle
with_ten_points(s) ==
    [s EXCEPT !.selected_box = append_handle(box_array(@), s.scale_factor)]

\* "offset = offset / np.linalg.norm(offset)"
unit(v) == <<QDiv(v[1], norm(v)), QDiv(v[2], norm(v))>>

\* "dist = 1 if size @ offset == 0 else ((new - fixed) @ offset) / (size @
\* offset)"
dist_along(size, moved, offset) ==
    IF QEq(Dot(size, offset), Whole(0)) THEN Whole(1)
    ELSE QDiv(Dot(moved, offset), Dot(size, offset))

\* the scale by the place of the fixed point: a corner, the top or bottom
\* center, a side
drag_scale(index, dist, dist_perp) ==
    IF index % 2 = 0 THEN <<dist_perp, dist>>
    ELSE IF index % 4 = 3 THEN <<Whole(1), dist>>
    ELSE <<dist_perp, Whole(1)>>

\* "threshold = self._vertex_size * self.scale_factor / 8"
threshold(factor) == Frac(vertex_size * factor, 8)

\* "scale[abs(scale * size[[1, 0]]) < threshold] = 1"
keep_above_threshold(scale, size, factor) ==
    <<IF QLess(QAbs(QMul(scale[1], size[2])), threshold(factor))
      THEN Whole(1) ELSE scale[1],
      IF QLess(QAbs(QMul(scale[2], size[1])), threshold(factor))
      THEN Whole(1) ELSE scale[2]>>

\* "transform = rotation @ scale_mat @ inv_rot"
resize_transform(scale, angle) ==
    MatMul(MatMul(<< <<CosDeg(angle), SinDeg(angle)>>,
                     <<QNeg(SinDeg(angle)), CosDeg(angle)>> >>,
                  << <<scale[1], Whole(0)>>, <<Whole(0), scale[2]>> >>),
           << <<CosDeg(angle), QNeg(SinDeg(angle))>>,
              <<SinDeg(angle), CosDeg(angle)>> >>)

\* "check orientation of box": the box is scaled when the handle points
\* along -x, and transformed otherwise
resize_box(box, scale, offset, fixed, factor) ==
    IF QEq(neg_arctan2(offset), Whole(0))
    THEN scale_box(box, scale, fixed, factor)
    ELSE transform_box(box, resize_transform(scale, neg_arctan2(offset)),
                       fixed, factor)

\* the scale of a resize with the fixed point at index
resize_scale(box, index, fixed, coord, factor) ==
    keep_above_threshold(
        drag_scale(index,
            dist_along(VSub(At(box, (index + 4) % Box.LEN), At(box, index)),
                       VSub(coord, fixed),
                       unit(VSub(At(box, Box.HANDLE), At(box, Box.CENTER)))),
            dist_along(VSub(At(box, (index + 4) % Box.LEN), At(box, index)),
                       VSub(coord, fixed),
                       <<unit(VSub(At(box, Box.HANDLE),
                                   At(box, Box.CENTER)))[2],
                         QNeg(unit(VSub(At(box, Box.HANDLE),
                                        At(box, Box.CENTER)))[1])>>)),
        VSub(At(box, (index + 4) % Box.LEN), At(box, index)),
        factor)

\* "if self._fixed_vertex is None": the point opposite the dragged one is
\* fixed
fix_opposite(s) ==
    IF s.fixed_vertex = NoneCoord
    THEN [s EXCEPT
            !.fixed_index = (s.moving_value[2] + 4) % Box.LEN,
            !.fixed_vertex =
                At(s.selected_box, (s.moving_value[2] + 4) % Box.LEN)]
    ELSE s

\* _move, "elif vertex < Box.LEN": a corner or an edge point is dragged
\* (not with _fixed_aspect)
move_resize(s, coord) ==
    refresh(
        [fix_opposite(s) EXCEPT !.selected_box =
            resize_box(@,
                resize_scale(@, fix_opposite(s).fixed_index,
                             fix_opposite(s).fixed_vertex, coord,
                             s.scale_factor),
                unit(VSub(At(@, Box.HANDLE), At(@, Box.CENTER))),
                fix_opposite(s).fixed_vertex, s.scale_factor)])

\* _move, "if vertex is None": the whole selection is dragged
move_shift(s, coord) ==
    LET center == At(s.selected_box, Box.CENTER)
        start == IF s.drag_start = NoneCoord THEN VSub(coord, center)
                 ELSE s.drag_start
    IN  refresh(
            [s EXCEPT
                !.drag_start = start,
                !.selected_box =
                    [i \in 1 .. Len(@) |->
                        VAdd(@[i], VSub(VSub(coord, center), start))]])

\* "if self._drag_start is None": the center is fixed and the angle of the
\* handle kept
fix_center(s) ==
    IF s.drag_start = NoneCoord
    THEN [s EXCEPT
            !.fixed_vertex = At(s.selected_box, Box.CENTER),
            !.drag_start =
                neg_arctan2(VSub(At(s.selected_box, Box.HANDLE),
                                 At(s.selected_box, Box.CENTER)))]
    ELSE s

\* the angle of a rotation drag (not with _fixed_aspect)
drag_angle(box, fixed, coord) ==
    IF QLess(norm(VSub(coord, fixed)), Whole(1)) THEN Whole(0)
    ELSE QSub(neg_arctan2(VSub(coord, fixed)),
              neg_arctan2(VSub(At(box, Box.HANDLE), fixed)))

\* _move, "elif vertex == 8": the rotation handle is dragged
move_rotate(s, coord) ==
    refresh(
        [fix_center(s) EXCEPT !.selected_box =
            rotate_box(@, drag_angle(@, fix_center(s).fixed_vertex, coord),
                       fix_center(s).fixed_vertex)])

\* _move with the slip of toggling the moving state at every move
move_select_toggling(s, coord) ==
    IF s.mode \notin {SELECT, ADD_RECTANGLE, ADD_ELLIPSE, ADD_LINE} THEN s
    ELSE IF s.selected_data # {}
    THEN IF s.moving_value[2] = NoneIdx
         THEN move_shift([s EXCEPT !.is_moving = ~@], coord)
         ELSE IF s.moving_value[2] < Box.LEN
         THEN move_resize([s EXCEPT !.is_moving = ~@], coord)
         ELSE IF s.moving_value[2] = 8
         THEN move_rotate([s EXCEPT !.is_moving = ~@], coord)
         ELSE [s EXCEPT !.is_moving = ~@]
    ELSE [s EXCEPT !.is_selecting = TRUE,
                   !.drag_start = IF @ = NoneCoord THEN coord ELSE @,
                   !.drag_box = <<IF s.drag_start = NoneCoord
                                  THEN coord ELSE s.drag_start, coord>>]

\* Shapes._move in the branch of Mode.SELECT, ADD_RECTANGLE, ADD_ELLIPSE and
\* ADD_LINE, for the pointer at coord
move_select(s, coord) ==
    IF s.mode \notin {SELECT, ADD_RECTANGLE, ADD_ELLIPSE, ADD_LINE} THEN s
    ELSE IF s.selected_data # {}
    THEN IF s.moving_value[2] = NoneIdx
         THEN move_shift([s EXCEPT !.is_moving = TRUE], coord)
         ELSE IF s.moving_value[2] < Box.LEN
         THEN move_resize([s EXCEPT !.is_moving = TRUE], coord)
         ELSE IF s.moving_value[2] = 8
         THEN move_rotate([s EXCEPT !.is_moving = TRUE], coord)
         ELSE [s EXCEPT !.is_moving = TRUE]
    ELSE [s EXCEPT !.is_selecting = TRUE,
                   !.drag_start = IF @ = NoneCoord THEN coord ELSE @,
                   !.drag_box = <<IF s.drag_start = NoneCoord
                                  THEN coord ELSE s.drag_start, coord>>]

\* the press of the select handler on the box of the selection: what is
\* under the pointer is kept in _moving_value
press_select(s, vertex) ==
    [s EXCEPT !.moving_value = <<CHOOSE i \in s.selected_data :
                                    \A j \in s.selected_data : i <= j,
                                vertex>>,
              !.in_drag = TRUE]

\* the release of the select handler after the selection was moved
release_select(s) ==
    [s EXCEPT !.is_moving = FALSE,
              !.drag_start = NoneCoord,
              !.drag_box = NoneCoord,
              !.fixed_vertex = NoneCoord,
              !.moving_value = <<NoneIdx, NoneIdx>>,
              !.in_drag = FALSE]

\* VispyBaseLayer.on_draw: the layer takes the scale factor of the view
on_draw(s, factor) == [s EXCEPT !.scale_factor = factor]

\* the largest coordinate of a corner of a box of the model
MaxCoord == 12

\* the most pointer events (presses, moves and releases) of a behaviour
MaxEvents == 6

\* the shapes that are dragged: a rectangle of 10 by 2 and a line along the
\* second displayed axis
DragShapes ==
    {[st |-> "rectangle",
      data |-> << <<0, 0, 0>>, <<0, 0, 2>>, <<0, 10, 2>>, <<0, 10, 0>> >>],
     [st |-> "line", data |-> << <<0, 5, 0>>, <<0, 5, 10>> >>]}

\* what is pressed: the inside of the box, a corner, the top center or the
\* rotation handle
DragVertices == {NoneIdx, Box.TOP_LEFT, Box.TOP_CENTER, Box.LEN}

\* pointer positions in the displayed plane
DragCoords == {Pt(5, 6), Pt(1, 1), Pt(8, 1)}

\* scale factors of the view
ZoomInputs == {1, 2}

\* a layer with one shape, selected in the mode SELECT
drag_layer(shape) ==
    with_ten_points(
        selected_data_setter(
            mode_setter(add(new_layer({}),
                            [kind |-> "list", items |-> <<shape>>],
                            "", "", NoneIdx),
                        SELECT),
            {0}))

InitDrag ==
    \E shape \in DragShapes :
        /\ StateIs(drag_layer(shape))
        /\ layers = <<>>
        /\ call_args = <<>>
        /\ n_events = 0
        /\ labels = Unbuilt
        /\ dims = Unbuilt
        /\ edict = Unbuilt
        /\ lastOp = "init"

\* the corners of the box lie within the range of the model, at quarters
FitsPlane(box) ==
    {i \in 1 .. Box.LEN :
        \E k \in 1 .. 2 :
            /\ ~IsNaN(box[i][k])
            /\ (Abs(box[i][k][1]) > MaxCoord * box[i][k][2]
                \/ box[i][k][2] > 4)} = {}

\* the press of the pointer on the box of the selection
Press ==
    \E vertex \in DragVertices :
        /\ mode = SELECT
        /\ ~in_drag
        /\ selected_data # {}
        /\ n_events < MaxEvents
        /\ PointerBecomes(press_select(Layer, vertex), "press")

\* a move of the pointer while it is held down; a rotation is by quarter
\* turns
DragMove ==
    \E coord \in DragCoords :
        /\ in_drag
        /\ n_events < MaxEvents
        /\ IF selected_data # {} /\ moving_value[2] = 8
           THEN ~IsNaN(norm(VSub(coord, fix_center(Layer).fixed_vertex)))
           ELSE TRUE
        /\ IF selected_data # {}
           THEN FitsPlane(move_select(Layer, coord).selected_box)
           ELSE TRUE
        /\ PointerBecomes(move_select(Layer, coord), "drag_move")

\* the release of the pointer
Release ==
    /\ in_drag
    /\ is_moving
    /\ n_events < MaxEvents
    /\ PointerBecomes(release_select(Layer), "release")

\* the view is zoomed and drawn
Zoom ==
    \E factor \in ZoomInputs :
        /\ factor # scale_factor
        /\ ~in_drag
        /\ Becomes(on_draw(Layer, factor), "zoom")

NextDrag == Press \/ DragMove \/ Release \/ Zoom \/ FinishDrawing

SpecDrag == InitDrag /\ [][NextDrag]_vars

\* the most rotations of a box in a row
MaxTurns == 2

\* angles of a rotation: quarter turns and the angle of the 3-4-5 triangle
TurnAngles == {Whole(90), Whole(180), Whole(0 - 90), Whole(53), Whole(0 - 53)}

\* centers of a rotation
TurnCenters == {Pt(0, 0), Pt(1, 2), <<Frac(5, 2), Whole(0 - 3)>>}

\* the rotations made so far
turns == IF call_args = <<>> THEN 0 ELSE call_args[3]

\* layer._rotate_box(angle, center=center)
RotateBox ==
    \E angle \in TurnAngles, center \in TurnCenters :
        /\ selected_box # NoneCoord
        /\ turns < MaxTurns
        /\ selected_box' = rotate_box(selected_box, angle, center)
        /\ call_args' = <<angle, center, turns + 1>>
        /\ lastOp' = "rotate_box"
        /\ layers' = layers
        /\ n_events' = n_events
        /\ UNCHANGED others
        /\ UNCHANGED <<shapes, edge_color, face_color, dv_slice_key,
                       properties, current_properties, current_edge_color,
                       current_face_color, selected_data, clipboard, mode,
                       editable, visible, cursor, interactive, help,
                       mouse_drag_callbacks, mouse_move_callbacks,
                       is_creating, is_moving, is_selecting, moving_value,
                       drag_start, drag_box, dims_order, dims_ndisplay,
                       dims_point, display_order_stored, ndisplay_stored,
                       color_mode, color_property, color_cycle,
                       color_cycle_pos, color_cycle_map, contrast_limits,
                       fixed_vertex, fixed_index, scale_factor, in_drag, hit,
                       error>>

NextRotate == RotateBox

SpecRotate == InitDrag /\ [][NextRotate]_vars

(* ---------------------------------------------------------------------- *)
(* LayerList: the ordered collection of the layers of a viewer             *)
(* ---------------------------------------------------------------------- *)
\* the most layers a list holds
MaxLayers == 3

LayerIds == 1 .. MaxLayers

\* a name is its text before the bracketed index and the index at its end,
\* 0 when it has none: 'img' is Name("img", 0), 'img [1]' is Name("img", 1)
Name(base, count) == [base |-> base, count |-> count]

\* Layer._basename() of an Image layer
basename == Name("Image", 0)

\* inc_name_count: 'Image' -> 'Image [1]', 'Image [1]' -> 'Image [2]'
inc_name_count(name) == [name EXCEPT !.count = @ + 1]

\* [l.name for l in layers]
layer_names(ll) == [i \in 1 .. Len(ll) |-> ll[i].name]

\* force_name_unique: the name, incremented until no listed name equals it
RECURSIVE force_name_unique(_, _)
force_name_unique(name, names) ==
    IF \E i \in 1 .. Len(names) : names[i] = name
    THEN force_name_unique(inc_name_count(name), names)
    ELSE name

\* layers[name]: the first layer of that name
layer_by_name(ll, name) ==
    CHOOSE k \in 1 .. Len(ll) :
        ll[k].name = name /\ \A j \in 1 .. (k - 1) : ll[j].name # name

\* _on_name_unique_change with the slip of taking the requested name as it is
on_name_unique_change_unchecked(ll, old_name, new_name) == ll

\* LayerList._on_name_unique_change((old_name, new_name)): the layer found
\* under its old name gets the unique name when the new one is taken
on_name_unique_change(ll, old_name, new_name) ==
    IF new_name # force_name_unique(new_name, layer_names(ll))
    THEN [ll EXCEPT ![layer_by_name(ll, old_name)].name =
                        force_name_unique(new_name, layer_names(ll))]
    ELSE ll

\* Layer.name setter of the layer at position i of a list: the list hears
\* (old name, new name) while the layer still carries its old name, and
\* the layer takes the new name unless the list gave it another one
name_setter(ll, i, name) ==
    IF name = ll[i].name
    THEN ll
    ELSE LET new_name == IF name.base = "" THEN basename ELSE name
             heard == on_name_unique_change(ll, ll[i].name, new_name)
         IN  IF heard # ll THEN heard ELSE [ll EXCEPT ![i].name = new_name]

\* Layer.selected setter of the layer at position i
selected_setter(ll, i, selected) == [ll EXCEPT ![i].selected = selected]

\* LayerList.unselect_all(ignore=layer); 0 stands for ignore=None
unselect_all(ll, ignore) ==
    [i \in 1 .. Len(ll) |->
        IF ll[i].selected /\ ll[i].id # ignore
        THEN [ll[i] EXCEPT !.selected = FALSE]
        ELSE ll[i]]

\* naming of a layer added at the end: unique among layers[:-1]
add_name(ll) ==
    [ll EXCEPT ![Len(ll)].name =
        force_name_unique(ll[Len(ll)].name,
                          layer_names(SubSeq(ll, 1, Len(ll) - 1)))]

\* _add(event): the handler of the list's "added" event, the new layer last
LayerList_add(ll) == unselect_all(add_name(ll), ll[Len(ll)].id)

\* layers.append(layer)
LayerList_append(ll, layer) == LayerList_add(Append(ll, layer))

\* list.pop(i) for each i of the list, in the order of the list
RECURSIVE pop_all(_, _)
pop_all(ll, to_delete) ==
    IF to_delete = <<>> THEN ll
    ELSE pop_all(SubSeq(ll, 1, Head(to_delete)) \o
                 SubSeq(ll, Head(to_delete) + 2, Len(ll)),
                 Tail(to_delete))

\* select_after_removal with the slip of selecting the layer that took the
\* first deleted position
select_at_removal(ll, first_to_delete) ==
    IF first_to_delete < Len(ll)
    THEN selected_setter(ll, first_to_delete + 1, TRUE)
    ELSE ll

\* the selection that remove_selected leaves: the layer before the first
\* deleted position, or the first layer
select_after_removal(ll, first_to_delete) ==
    IF first_to_delete = 0 /\ Len(ll) > 0
    THEN selected_setter(ll, 1, TRUE)
    ELSE IF first_to_delete > 0
         THEN selected_setter(ll, first_to_delete, TRUE)
         ELSE ll

\* LayerList.remove_selected()
LayerList_remove_selected(ll) ==
    LET to_delete == SortedList({i \in Idx(ll) : At(ll, i).selected})
    IN  IF Len(to_delete) > 0
        THEN select_after_removal(pop_all(ll, Reverse(to_delete)),
                                  to_delete[1])
        ELSE ll

\* list.insert(pos, x): past the end it appends
ListInsert(seq, pos, x) ==
    IF pos >= Len(seq) THEN Append(seq, x)
    ELSE SubSeq(seq, 1, pos) \o <<x>> \o SubSeq(seq, pos + 1, Len(seq))

\* for i in selected: indices.remove(i)
RECURSIVE remove_indices(_, _)
remove_indices(order, selected) ==
    IF selected = <<>> THEN order
    ELSE remove_indices(ListRemove(order, Head(selected)), Tail(selected))

\* for insert_idx, elem_idx in enumerate(selected, start):
\*     indices.insert(insert_idx, elem_idx)
RECURSIVE insert_indices(_, _, _)
insert_indices(order, selected, start) ==
    IF selected = <<>> THEN order
    ELSE insert_indices(ListInsert(order, start, Head(selected)),
                     Tail(selected), start + 1)

\* the head of move_selected: a layer dragged unselected is selected alone
select_moved(ll, index) ==
    IF ~At(ll, index).selected
    THEN selected_setter(unselect_all(ll, 0), index + 1, TRUE)
    ELSE ll

\* [i for i in range(total) if self[i].selected]
selected_indices(ll) == SortedList({i \in Idx(ll) : At(ll, i).selected})

\* sum([i < insert and i != index for i in selected])
move_offset(ll, index, insert) ==
    Cardinality({i \in Idx(ll) : At(ll, i).selected /\ i < insert /\ i # index})

\* move_order with the slip of an offset that counts the dragged layer too
move_order_full_offset(ll, index, insert) ==
    insert_indices(remove_indices([i \in 1 .. Len(ll) |-> i - 1],
                            selected_indices(ll)),
                selected_indices(ll),
                insert - Cardinality({i \in Idx(ll) :
                                         At(ll, i).selected /\ i < insert}))

\* the indices in their new order
move_order(ll, index, insert) ==
    insert_indices(remove_indices([i \in 1 .. Len(ll) |-> i - 1],
                            selected_indices(ll)),
                selected_indices(ll),
                insert - move_offset(ll, index, insert))

\* LayerList.move_selected(index, insert)
LayerList_move_selected(ll, index, insert) ==
    Take(select_moved(ll, index),
         move_order(select_moved(ll, index), index, insert))

\* names given to layers: 'img', 'img [1]', 'chg', and the empty name
NameInputs == {Name("img", 0), Name("img", 1), Name("chg", 0), Name("", 0)}

\* every variable of the Shapes layer
shapes_vars == <<shapes, edge_color, face_color, dv_slice_key, properties,
                 current_properties, current_edge_color, current_face_color,
                 selected_data, clipboard, mode, editable, visible, cursor,
                 interactive, help, mouse_drag_callbacks,
                 mouse_move_callbacks, is_creating, is_moving, is_selecting,
                 moving_value, drag_start, drag_box, dims_order,
                 dims_ndisplay, dims_point, display_order_stored,
                 ndisplay_stored, color_mode, color_property, color_cycle,
                 color_cycle_pos, color_cycle_map, contrast_limits,
                 selected_box, fixed_vertex, fixed_index, scale_factor,
                 in_drag, hit, error>>

\* the list after a call
ListBecomes(ll, op, args) ==
    /\ layers' = ll
    /\ call_args' = args
    /\ lastOp' = op
    /\ n_events' = n_events
    /\ UNCHANGED others
    /\ UNCHANGED shapes_vars

\* layers.append(Image(data, name=name)), the layer selected or not before
ListAppend(names, flags) ==
    \E id \in LayerIds, name \in names, selected \in flags :
        /\ Len(layers) < MaxLayers
        /\ \A i \in 1 .. Len(layers) : layers[i].id # id
        /\ \A i \in LayerIds : i < id => \E k \in 1 .. Len(layers) : layers[k].id = i
        /\ ListBecomes(
               LayerList_append(layers,
                   [id |-> id,
                    name |-> IF name.base = "" THEN basename ELSE name,
                    selected |-> selected]),
               "append", <<>>)

\* layers[i].name = name
Rename ==
    \E i \in 1 .. Len(layers), name \in NameInputs :
        ListBecomes(name_setter(layers, i, name), "name", <<>>)

\* layers[i].selected = value
SetLayerSelected ==
    \E i \in 1 .. Len(layers), value \in BOOLEAN :
        /\ value # layers[i].selected
        /\ ListBecomes(selected_setter(layers, i, value), "selected", <<>>)

\* layers.remove_selected()
ListRemoveSelected ==
    ListBecomes(LayerList_remove_selected(layers), "list_remove_selected",
                <<>>)

\* layers.move_selected(index, insert)
MoveSelected ==
    \E index \in Idx(layers), insert \in Idx(layers) :
        ListBecomes(LayerList_move_selected(layers, index, insert),
                    "move_selected", <<index, insert>>)

\* appends and renames of layers
NextNames ==
    \/ ListAppend(NameInputs, {TRUE})
    \/ Rename

SpecNames == InitNoProperties /\ [][NextNames]_vars

\* appends, selections, removals and moves of layers named alike
NextList ==
    \/ ListAppend({Name("img", 0)}, BOOLEAN)
    \/ SetLayerSelected
    \/ ListRemoveSelected
    \/ MoveSelected

SpecList == InitNoProperties /\ [][NextList]_vars

(* ---------------------------------------------------------------------- *)
(* Claims about the collection, under Spec                                 *)
(* ---------------------------------------------------------------------- *)
\* C1: in every reachable state the edge-color array, the face-color array
\* and the shape list have the same number of entries
C1_ColorsAligned ==
    /\ Len(edge_color) = Len(shapes)
    /\ Len(face_color) = Len(shapes)

\* C2: in every reachable state every array of the properties table has as
\* many entries as there are shapes
C2_PropertiesAligned ==
    \A k \in DOMAIN properties : Len(properties[k]) = Len(shapes)

\* C3: an add call that fails on a shape with the wrong number of vertices
\* leaves the shape list, both color arrays and every property array as
\* they were before the call
C3_FailedAddChangesNothing ==
    [][(lastOp' = "add" /\ error' = "InvalidVertexCount") =>
           /\ shapes' = shapes
           /\ edge_color' = edge_color
           /\ face_color' = face_color
           /\ properties' = properties]_vars

(* ---------------------------------------------------------------------- *)
(* Claims about the view, under SpecView and SpecClip                      *)
(* ---------------------------------------------------------------------- *)
\* C4: after any change of the slice key, the dims order or ndisplay of a
\* Shapes layer, selected_data is empty
C4_SelectionClearedOnViewChange ==
    [][(\/ dims_point' # dims_point
        \/ dims_order' # dims_order
        \/ dims_ndisplay' # dims_ndisplay) => selected_data' = {}]_vars

C6_NonEditableIsPanZoom == ~editable => mode = PAN_ZOOM

\* a mode was requested of a non-editable layer, which is in PAN_ZOOM and
\* has raised nothing
C6_Witness ==
    /\ lastOp = "mode"
    /\ ~editable
    /\ mode = PAN_ZOOM
    /\ error = ""

\* C7: the registered drag and move handlers are exactly those of the
\* current mode
C7_HandlersOfCurrentMode ==
    /\ mouse_drag_callbacks =
           CASE mode = PAN_ZOOM -> <<>>
             [] mode \in {SELECT, DIRECT} -> <<"select">>
             [] mode = VERTEX_INSERT -> <<"vertex_insert">>
             [] mode = VERTEX_REMOVE -> <<"vertex_remove">>
             [] mode = ADD_RECTANGLE -> <<"add_rectangle">>
             [] mode = ADD_ELLIPSE -> <<"add_ellipse">>
             [] mode = ADD_LINE -> <<"add_line">>
             [] mode \in {ADD_PATH, ADD_POLYGON} -> <<"add_path_polygon">>
    /\ mouse_move_callbacks =
           CASE mode \in {SELECT, DIRECT, VERTEX_INSERT, VERTEX_REMOVE} ->
                    <<"highlight">>
             [] mode \in {ADD_PATH, ADD_POLYGON} ->
                    <<"add_path_polygon_creating">>
             [] OTHER -> <<>>

\* a mode transition has just led to a mode with a drag and a move handler
C7_Witness ==
    /\ lastOp = "mode"
    /\ mode = VERTEX_REMOVE
    /\ mouse_drag_callbacks = <<"vertex_remove">>
    /\ mouse_move_callbacks = <<"highlight">>

(* ---------------------------------------------------------------------- *)
(* Claims about drawing, under SpecDraw                                    *)
(* ---------------------------------------------------------------------- *)
\* C8: on every mode transition in which neither the old nor the new mode
\* is one of SELECT, DIRECT, VERTEX_INSERT, VERTEX_REMOVE, afterwards no
\* shape is being created and the drag and moving state is reset
C8_TransitionFinalizesCreation ==
    [][(/\ mode' # mode
        /\ mode \notin draw_modes
        /\ mode' \notin draw_modes) =>
           /\ ~is_creating'
           /\ ~is_moving'
           /\ ~is_selecting'
           /\ drag_start' = NoneCoord
           /\ drag_box' = NoneCoord
           /\ moving_value' = <<NoneIdx, NoneIdx>>]_vars

\* a transition out of a path mode has just ended a creation: the path of
\* two coincident vertices that the first click made is still there (the
\* finish signal would have removed it) and nothing is being created
C8_Witness ==
    /\ lastOp = "mode"
    /\ mode \notin draw_modes
    /\ ~is_creating
    /\ \E i \in 1 .. Len(shapes) :
           /\ shapes[i].st = "path"
           /\ Len(shapes[i].data) = 2

\* C9: when the creation of a path or polygon ends, by the finish signal or
\* by a mode change, and the shape has fewer vertices than its type's
\* minimum once the vertex that follows the cursor is dropped, the shape is
\* removed from the collection
C9_ShortShapeRemoved ==
    [][(/\ is_creating
        /\ ~is_creating'
        /\ moving_value[1] \in Idx(shapes)
        /\ Len(At(shapes, moving_value[1]).data) - 1 <
               (IF At(shapes, moving_value[1]).st = "polygon" THEN 3 ELSE 2))
           => Len(shapes') = Len(shapes) - 1]_vars

(* ---------------------------------------------------------------------- *)
(* Claims about copy and paste, under SpecPaste                            *)
(* ---------------------------------------------------------------------- *)
\* C10: every pasted item has, on every non-displayed axis, the coordinates
\* of the copied item plus (slice position at paste minus slice position at
\* copy), and on every displayed axis the coordinates of the copied item
C10_PasteShiftsNotDisplayed ==
    [][(lastOp' = "paste" /\ error' = "") =>
           /\ Len(shapes') = Len(shapes) + Len(clipboard.data)
           /\ \A i \in 1 .. Len(clipboard.data) :
                  \A v \in 1 .. Len(clipboard.data[i].data) :
                      \A a \in 1 .. ndim :
                          shapes'[Len(shapes) + i].data[v][a] =
                              IF (a - 1) \in displayed(dims_order, dims_ndisplay)
                              THEN clipboard.data[i].data[v][a]
                              ELSE clipboard.data[i].data[v][a]
                                   + dims_point[a] - clipboard.indices[a]]_vars

\* shapes copied at plane 0 have just been pasted at plane 1: the last shape
\* lies in plane 1
C10_Witness ==
    /\ lastOp = "paste"
    /\ error = ""
    /\ dims_point[1] = 1
    /\ shapes # <<>>
    /\ \A v \in 1 .. Len(shapes[Len(shapes)].data) :
           shapes[Len(shapes)].data[v][1] = 1

\* C11: immediately after a paste with a non-empty clipboard, selected_data
\* is exactly the set of the indices of the shapes the paste has inserted,
\* whatever was selected before
C11_PasteSelectsPasted ==
    [][(lastOp' = "paste" /\ error' = "" /\ clipboard.full) =>
           selected_data' = Len(shapes) .. (Len(shapes') - 1)]_vars

\* a paste into a layer of one shape has just inserted a second shape, which
\* alone is selected
C11_Witness ==
    /\ lastOp = "paste"
    /\ error = ""
    /\ Len(shapes) = 2
    /\ selected_data = {1}

\* C12: immediately after a paste every pasted shape has a z-index strictly
\* greater than the z-index of every shape that was not pasted
C12_PastedOnTop ==
    [][(lastOp' = "paste" /\ error' = "") =>
           \A i \in (Len(shapes) + 1) .. Len(shapes') :
               \A j \in 1 .. Len(shapes) : shapes'[i].z > shapes'[j].z]_vars

\* a paste has just put a second shape above the first
C12_Witness ==
    /\ lastOp = "paste"
    /\ error = ""
    /\ Len(shapes) = 2
    /\ shapes[2].z > shapes[1].z

C14_RebuildInOrderOfAppearance ==
    [][(/\ lastOp' \in {"rebuild_colors", "color_cycle"}
        /\ error' = ""
        /\ color_mode["face"] = CYCLE) =>
           LET new == color_cycle_map'["face"]
               cycle == color_cycle'["face"]
               start == IF lastOp' = "color_cycle" THEN 0
                        ELSE color_cycle_pos["face"]
               column == properties'[color_property'["face"]]
               first(v) == CHOOSE i \in 1 .. Len(column) :
                               /\ column[i] = v
                               /\ \A j \in 1 .. (i - 1) : column[j] # v
               values == {column[i] : i \in 1 .. Len(column)}
               rank(v) == Cardinality({w \in values : first(w) < first(v)})
           IN  /\ DOMAIN new = values
               /\ \A v \in values :
                      new[v] = cycle[((start + rank(v)) % Len(cycle)) + 1]]_vars

(* ---------------------------------------------------------------------- *)
(* Claims about the color modes, under SpecColorMode                       *)
(* ---------------------------------------------------------------------- *)
\* C15: a switch of a color attribute from CYCLE or COLORMAP to DIRECT
\* succeeds, and after it the value-to-color map of the attribute is empty
C15_DirectDiscardsMap ==
    [][\A a \in Attributes :
           (color_mode[a] \in {CYCLE, COLORMAP}
            /\ color_mode'[a] = DIRECT_COLOR) =>
               /\ error' = ""
               /\ color_cycle_map'[a] = EmptyMap]_vars

\* C16: a switch of a color attribute to CYCLE or COLORMAP on a layer without
\* properties fails with an error and leaves the mode as it was
C16_NoPropertiesFails ==
    [][\A a \in Attributes : \A m \in {CYCLE, COLORMAP} :
           (lastOp' = color_mode_op(m, a) /\ DOMAIN properties = {}) =>
               /\ error' = "ValueError"
               /\ color_mode'[a] = color_mode[a]]_vars

\* face_color_mode = 'cycle' has just failed on a layer without properties
C16_Witness ==
    /\ lastOp = color_mode_op(CYCLE, "face")
    /\ DOMAIN properties = {}
    /\ error = "ValueError"
    /\ color_mode["face"] = DIRECT_COLOR

\* C17: a switch of a color attribute to COLORMAP fails with an error, and
\* leaves the mode as it was, when the property chosen for the attribute (its
\* color property or, without one, the first property) is not numeric
C17_NonNumericFails ==
    [][\A a \in Attributes :
           (/\ lastOp' = color_mode_op(COLORMAP, a)
            /\ DOMAIN properties # {}
            /\ ~is_numeric(IF color_property[a] # "" THEN color_property[a]
                           ELSE first_property(Layer))) =>
               /\ error' = "TypeError"
               /\ color_mode'[a] = color_mode[a]]_vars

\* face_color_mode = 'colormap' has just failed on a layer whose face colors
\* follow the column of strings through a cycle
C17_Witness ==
    /\ lastOp = color_mode_op(COLORMAP, "face")
    /\ error = "TypeError"
    /\ color_property["face"] = "kind"
    /\ color_mode["face"] = CYCLE

(* ---------------------------------------------------------------------- *)
(* Claims about the colormap, under SpecColormap                           *)
(* ---------------------------------------------------------------------- *)
\* C18: in COLORMAP mode contrast limits that were set explicitly stay as
\* they were set over every operation but their own assignment: no refresh
\* of the colors and no add replaces them by a recomputed (min, max)
C18_PinnedLimitsKept ==
    [][(/\ color_mode["face"] = COLORMAP
        /\ contrast_limits["face"] = PinnedLimits
        /\ lastOp' # "contrast_limits") =>
           contrast_limits'["face"] = PinnedLimits]_vars

(* ---------------------------------------------------------------------- *)
(* Claims about hit testing, under SpecHit                                 *)
(* ---------------------------------------------------------------------- *)
\* C19: while three dimensions are displayed, the value taken under the
\* cursor is no hit, neither a shape nor a vertex, wherever the cursor is
\* and whatever the state of the layer, a drag in progress included
C19_NoHitIn3D ==
    (lastOp = "position" /\ dims_ndisplay = 3) =>
        hit \in {NoneCoord, <<NoneIdx, NoneIdx>>}

\* the cursor has just been placed on a visible layer in three displayed
\* dimensions while a vertex of a path is being dragged: no hit
C19_Witness ==
    /\ lastOp = "position"
    /\ dims_ndisplay = 3
    /\ visible
    /\ is_moving
    /\ moving_value[1] \in Idx(shapes)
    /\ hit = <<NoneIdx, NoneIdx>>

(* ---------------------------------------------------------------------- *)
(* Claims about the interaction box, under SpecBox                         *)
(* ---------------------------------------------------------------------- *)
\* C20: after every operation that changes selected_data the interaction
\* box is the box computed from the new selection in the new state, and
\* there is no box exactly when the selection is empty
C20_BoxFollowsSelection ==
    [][selected_data' # selected_data =>
           /\ selected_box' =
                  interaction_box(
                      [shapes |-> shapes',
                       display_order_stored |-> display_order_stored',
                       ndisplay_stored |-> ndisplay_stored',
                       dv_slice_key |-> dv_slice_key'],
                      selected_data')
           /\ (selected_box' = NoneCoord) <=> (selected_data' = {})]_vars

\* two lines have just been selected together: the box is the box around
\* both
C20_Witness ==
    /\ lastOp = "selected_data"
    /\ selected_data = {0, 1}
    /\ selected_box = << <<0, 0>>, <<1, 1>> >>

(* ---------------------------------------------------------------------- *)
(* Claims about the mode, under SpecMode                                   *)
(* ---------------------------------------------------------------------- *)
\* C26: from every state, setting the mode to PAN_ZOOM puts the layer in
\* PAN_ZOOM, and setting it to PAN_ZOOM once more leaves the mode, the
\* cursor, the interactivity, the help text and the registered handlers
\* exactly as the first assignment left them
C26_PanZoomIdempotent ==
    LET once == mode_setter(Layer, PAN_ZOOM)
        twice == mode_setter(mode_setter(Layer, PAN_ZOOM), PAN_ZOOM)
    IN  /\ once.mode = PAN_ZOOM
        /\ twice.mode = once.mode
        /\ twice.cursor = once.cursor
        /\ twice.interactive = once.interactive
        /\ twice.help = once.help
        /\ twice.mouse_drag_callbacks = once.mouse_drag_callbacks
        /\ twice.mouse_move_callbacks = once.mouse_move_callbacks

\* a layer in SELECT mode, with the handlers of SELECT, from which two
\* assignments of PAN_ZOOM lead to the standard cursor and no handler
C26_Witness ==
    /\ mode = SELECT
    /\ mouse_drag_callbacks = <<"select">>
    /\ mode_setter(mode_setter(Layer, PAN_ZOOM), PAN_ZOOM).cursor = "standard"
    /\ mode_setter(mode_setter(Layer, PAN_ZOOM), PAN_ZOOM).mouse_drag_callbacks
           = <<>>

(* ---------------------------------------------------------------------- *)
(* Claims about the list of layers, under SpecList and SpecNames           *)
(* ---------------------------------------------------------------------- *)
\* C27: after an append the appended layer, the last of the list, is
\* selected and every other layer of the list is unselected
C27_AppendedAloneSelected ==
    [][lastOp' = "append" =>
          /\ layers'[Len(layers')].selected
          /\ \A i \in 1 .. (Len(layers') - 1) : ~layers'[i].selected]_vars

C29_RemoveSelected ==
    [][lastOp' = "list_remove_selected" =>
          LET kept == SelectSeq(layers, LAMBDA l : ~l.selected)
              removed == {i \in Idx(layers) : At(layers, i).selected}
              first == CHOOSE i \in removed : \A j \in removed : i <= j
          IN  /\ Len(layers') = Len(kept)
              /\ \A k \in 1 .. Len(kept) :
                     /\ layers'[k].id = kept[k].id
                     /\ layers'[k].name = kept[k].name
              /\ (removed # {} /\ Len(layers') > 0) =>
                     \A k \in 1 .. Len(layers') :
                         layers'[k].selected <=>
                             k = (IF first = 0 THEN 1 ELSE first)]_vars

\* the first of three layers was removed: the two others remain in their
\* order and the new first layer alone is selected
C29_Witness ==
    /\ lastOp = "list_remove_selected"
    /\ Len(layers) = 2
    /\ layers[1].id = 2 /\ layers[1].selected
    /\ layers[2].id = 3 /\ ~layers[2].selected

\* the ids of the layers of a list that are selected in the list sel
ids_in_order(ll, sel, flag) ==
    LET picked == SelectSeq(ll, LAMBDA l :
                      (\E k \in 1 .. Len(sel) :
                           sel[k].id = l.id /\ sel[k].selected) <=> flag)
    IN  [k \in 1 .. Len(picked) |-> picked[k].id]

\* what move_selected(index, insert) keeps in a step from before to after:
\* the layers, the selection (or the moved layer selected alone), the
\* selected layers side by side over the position insert in their former
\* order, and the order of the unselected layers
MoveKeeps(before, after, index, insert) ==
    /\ Len(after) = Len(before)
    /\ \A i \in 1 .. Len(before) : \E k \in 1 .. Len(after) :
           /\ after[k].id = before[i].id
           /\ after[k].name = before[i].name
           /\ after[k].selected =
                  IF At(before, index).selected
                  THEN before[i].selected
                  ELSE i = index + 1
    /\ \A j, k \in 1 .. Len(after) :
           (j <= k /\ after[j].selected /\ after[k].selected) =>
           \A m \in j .. k : after[m].selected
    /\ \E j, k \in 1 .. Len(after) :
           /\ j <= insert + 1 /\ insert + 1 <= k
           /\ after[j].selected /\ after[k].selected
    /\ ids_in_order(after, after, TRUE) = ids_in_order(before, after, TRUE)
    /\ ids_in_order(after, after, FALSE) = ids_in_order(before, after, FALSE)

\* the selected layers of a list lie side by side
SelectedTogether(ll) ==
    \A j, k \in 1 .. Len(ll) :
        (j <= k /\ ll[j].selected /\ ll[k].selected) =>
        \A m \in j .. k : ll[m].selected

\* C30 as stated: move_selected(index, insert) keeps the layers, selects
\* the moved layer alone when it was unselected, puts the selected layers
\* side by side at the insert position in their order and keeps the order
\* of the others; with insert equal to index the order is unchanged
C30_MoveSelected ==
    [][lastOp' = "move_selected" =>
          /\ MoveKeeps(layers, layers', call_args'[1], call_args'[2])
          /\ call_args'[1] = call_args'[2] =>
                 \A k \in 1 .. Len(layers) : layers'[k].id = layers[k].id]_vars

\* C30, amended: the same, the order being unchanged with insert equal to
\* index when the layers selected at the move lie side by side already
C30_MoveSelectedTogether ==
    [][lastOp' = "move_selected" =>
          /\ MoveKeeps(layers, layers', call_args'[1], call_args'[2])
          /\ (/\ call_args'[1] = call_args'[2]
              /\ SelectedTogether(select_moved(layers, call_args'[1]))) =>
                 \A k \in 1 .. Len(layers) : layers'[k].id = layers[k].id]_vars

\* test_move_selected: with the first two layers selected,
\* move_selected(0, 1) has put them side by side behind the third
C30_Witness ==
    /\ lastOp = "move_selected"
    /\ call_args = <<0, 1>>
    /\ Len(layers) = 3
    /\ layers[1].id = 3 /\ ~layers[1].selected
    /\ layers[2].id = 1 /\ layers[2].selected
    /\ layers[3].id = 2 /\ layers[3].selected

(* ---------------------------------------------------------------------- *)
(* Claims about dragging the interaction box, under SpecDrag and           *)
(* SpecRotate                                                              *)
(* ---------------------------------------------------------------------- *)
\* C21, as stated: a layer in the moving state stays in it at every step
\* but a release
C21_MovingUntilRelease ==
    [][is_moving => (is_moving' \/ lastOp' = "release")]_vars

\* C21, amended: a layer in the moving state stays in it at every further
\* move of the pointer, and at every other step but a release and the end
\* of drawing (_finish_drawing)
C21_MovingUntilReleaseOrFinish ==
    [][is_moving =>
          (is_moving' \/ lastOp' \in {"release", "finish_drawing"})]_vars

\* a second move of one drag has been handled and the layer is moving
C21_Witness ==
    /\ lastOp = "drag_move"
    /\ n_events = 3
    /\ in_drag
    /\ is_moving

\* a resize drag has handled a move: one of the eight points is dragged
\* and the point opposite to it has been fixed
InResize ==
    /\ in_drag
    /\ is_moving
    /\ selected_data # {}
    /\ moving_value[2] \in 0 .. (Box.LEN - 1)
    /\ fixed_vertex # NoneCoord

\* C22: throughout a resize drag the box point opposite the dragged one is
\* where it was when the drag started (the place kept in _fixed_vertex at
\* the first move)
C22_OppositePointFixed ==
    InResize => At(selected_box, fixed_index) = fixed_vertex

\* the lengths of the edges of a box: from the top left to the bottom left
\* and to the top right
edge_lengths(box) ==
    <<norm(VSub(At(box, Box.BOTTOM_LEFT), At(box, Box.TOP_LEFT))),
      norm(VSub(At(box, Box.TOP_RIGHT), At(box, Box.TOP_LEFT)))>>

\* C23: a move of a resize drag leaves no edge of the box both below the
\* threshold and shorter than it was
C23_NoEdgeShrunkBelowThreshold ==
    [][(lastOp' = "drag_move" /\ InResize') =>
          \A k \in 1 .. 2 :
              QLess(edge_lengths(selected_box')[k], threshold(scale_factor'))
                  => ~QLess(edge_lengths(selected_box')[k],
                            edge_lengths(selected_box)[k])]_vars

\* the handle of a box is a point other than its top center
handle_distinct(box) ==
    /\ \A k \in 1 .. 2 : ~IsNaN(At(box, Box.HANDLE)[k])
                          /\ ~IsNaN(At(box, Box.TOP_CENTER)[k])
    /\ At(box, Box.HANDLE) # At(box, Box.TOP_CENTER)

\* C24: after a move that scaled, transformed or rotated the box, a handle
\* that is not the top center lies at the handle length times the scale
\* factor of the view from the top center
C24_HandleAtLength ==
    [][(/\ lastOp' = "drag_move"
        /\ selected_data # {}
        /\ moving_value[2] # NoneIdx
        /\ handle_distinct(selected_box'))
       => QEq(norm(VSub(At(selected_box', Box.HANDLE),
                        At(selected_box', Box.TOP_CENTER))),
              handle_length(scale_factor'))]_vars

\* C25: a box rotated by an angle about a center and then by the negated
\* angle about the same center has its ten points where they were
C25_RotateBackRestores ==
    [][lastOp' = "rotate_box" =>
          /\ Len(selected_box') = Box.LEN + 2
          /\ rotate_box(selected_box', QNeg(call_args'[1]), call_args'[2])
                 = selected_box]_vars

\* a box has been rotated twice by the angle of the 3-4-5 triangle about a
\* center off the origin, and has a corner off the grid of fifths
C25_Witness ==
    /\ lastOp = "rotate_box"
    /\ turns = MaxTurns
    /\ call_args[1] = Whole(53)
    /\ call_args[2] = Pt(1, 2)
    /\ At(selected_box, Box.TOP_LEFT)[1][2] = 25

(* ---------------------------------------------------------------------- *)
(* Claims about the selection and the mode, under SpecSelectMode           *)
(* ---------------------------------------------------------------------- *)
\* C33: a transition of the mode between two of SELECT, DIRECT,
\* VERTEX_INSERT and VERTEX_REMOVE leaves selected_data as it was
C33_DrawModesKeepSelection ==
    [][(/\ lastOp' = "mode"
        /\ mode' # mode
        /\ mode \in draw_modes
        /\ mode' \in draw_modes) => selected_data' = selected_data]_vars

\* the mode has just been set to VERTEX_INSERT with both shapes selected:
\* the mode before it was a draw mode, since the way in from PAN_ZOOM
\* empties the selection
C33_Witness ==
    /\ lastOp = "mode"
    /\ mode = VERTEX_INSERT
    /\ selected_data = {0, 1}

C35_FailedSwitchChangesNothing ==
    [][\A a \in Attributes, m \in ColorMode :
           (lastOp' = color_mode_op(m, a) /\ error' # "") =>
               /\ color_mode'[a] = color_mode[a]
               /\ color_property'[a] = color_property[a]
               /\ (a = "face" => face_color' = face_color)
               /\ (a = "edge" => edge_color' = edge_color)]_vars

(* ---------------------------------------------------------------------- *)
(* Claims about the z_index of added shapes, under SpecZIndex              *)
(* ---------------------------------------------------------------------- *)
\* C36: a shape added with an explicit z_index, 0 included, has exactly that
\* z_index
C36_ExplicitZIndexKept ==
    [][(lastOp' = "add(z_index)" /\ call_args'[1] # NoneIdx) =>
           \A i \in Len(shapes) + 1 .. Len(shapes') :
               shapes'[i].z = call_args'[1]]_vars

(* ---------------------------------------------------------------------- *)
(* The Labels layer: modes, editability and the undo / redo histories      *)
(* ---------------------------------------------------------------------- *)
\* Mode.PICK
PICK_LABEL == "pick"
PAINT == "paint"
FILL == "fill"
ERASE == "erase"

LabelsMode == {PAN_ZOOM, PICK_LABEL, PAINT, FILL, ERASE}

\* "_history_limit = 100"
history_limit == 100

\* "self._brush_size = 10"
default_brush_size == 10

\* the largest label painted
MaxLabel == 1

\* the most entries of the undo history at which an edit is still made
MaxHistory == 2

LabelValues == 0 .. MaxLabel

\* data.shape: two planes of one row and two columns
DataShape == <<2, 1, 2>>

Voxels ==
    {<<z, r, c>> : z \in 0 .. DataShape[1] - 1, r \in 0 .. DataShape[2] - 1,
                   c \in 0 .. DataShape[3] - 1}

Pixels == {<<r, c>> : r \in 0 .. DataShape[2] - 1, c \in 0 .. DataShape[3] - 1}

\* Labels(np.zeros(shape, dtype=int)) or Labels([...], multiscale=True),
\* after __init__: _set_editable() has made a multiscale layer non-editable
new_labels(multiscale) ==
    [data |-> [v \in Voxels |-> 0], multiscale |-> multiscale, ndisplay |-> 2,
     step |-> 0, editable |-> ~multiscale, visible |-> TRUE, mode |-> PAN_ZOOM,
     cursor |-> "standard", cursor_size |-> NoneIdx, interactive |-> TRUE,
     help |-> "enter paint or fill mode to edit labels", status |-> PAN_ZOOM,
     drag_callbacks |-> <<>>, n_dimensional |-> FALSE, contiguous |-> TRUE,
     preserve_labels |-> FALSE, brush_size |-> default_brush_size,
     selected_label |-> 1, block_saving |-> FALSE, undo_history |-> <<>>,
     redo_history |-> <<>>, error |-> ""]

\* Labels._reset_history
reset_history(l) == [l EXCEPT !.undo_history = <<>>, !.redo_history = <<>>]

\* Labels.mode setter, "if self._mode == Mode.PICK: ... elif ...": the
\* handler of the old mode is taken off the drag callbacks
without_handler(l) ==
    [l EXCEPT !.drag_callbacks =
        IF l.mode = PAN_ZOOM THEN @
        ELSE ListRemove(@, IF l.mode = PICK_LABEL THEN "pick" ELSE "draw")]

\* Labels.mode setter, the branch of the new mode
Labels_enter_mode(l, m) ==
    CASE m = PAN_ZOOM ->
           [l EXCEPT !.cursor = "standard", !.interactive = TRUE,
                     !.help = "enter paint or fill mode to edit labels"]
      [] m = PICK_LABEL ->
           [l EXCEPT !.cursor = "cross", !.interactive = FALSE,
                     !.help = "hold <space> to pan/zoom, click to pick a label",
                     !.drag_callbacks = Append(@, "pick")]
      [] m = PAINT ->
           [l EXCEPT !.cursor_size = l.brush_size, !.cursor = "square",
                     !.interactive = FALSE,
                     !.help = "hold <space> to pan/zoom, hold <shift> to toggle preserve_labels, hold <control> to fill, hold <alt> to erase, drag to paint a label",
                     !.drag_callbacks = Append(@, "draw")]
      [] m = FILL ->
           [l EXCEPT !.cursor = "cross", !.interactive = FALSE,
                     !.help = "hold <space> to pan/zoom, click to fill a label",
                     !.drag_callbacks = Append(@, "draw")]
      [] OTHER ->
           [l EXCEPT !.cursor_size = l.brush_size, !.cursor = "square",
                     !.interactive = FALSE,
                     !.help = "hold <space> to pan/zoom, drag to erase a label",
                     !.drag_callbacks = Append(@, "draw")]

\* Labels.mode setter
Labels_mode_setter(l, requested) ==
    IF coerce_mode(requested, l.editable) = l.mode THEN l
    ELSE [Labels_enter_mode(without_handler(l), coerce_mode(requested, l.editable))
          EXCEPT !.status = coerce_mode(requested, l.editable),
                 !.mode = coerce_mode(requested, l.editable)]

\* Labels._set_editable(editable=<bool>): "if not self.editable: ..."
Labels_set_editable_explicit(l) ==
    IF ~l.editable THEN reset_history(Labels_mode_setter(l, PAN_ZOOM)) ELSE l

\* Layer.editable setter on a Labels layer
Labels_editable_setter(l, value) ==
    IF l.editable = value THEN l
    ELSE Labels_set_editable_explicit([l EXCEPT !.editable = value])

\* Labels._set_editable() with editable=None
Labels_set_editable(l) ==
    Labels_set_editable_explicit(
        Labels_editable_setter(l, ~(l.multiscale \/ l.ndisplay = 3)))

\* "self.editable = self._set_editable()": _set_editable() has returned None,
\* which differs from the stored boolean, so the setter stores it and runs
\* _set_editable(editable=None), which assigns the boolean again
Labels_assign_none_to_editable(l) ==
    Labels_set_editable_explicit(Labels_set_editable_explicit(
        [l EXCEPT !.editable = ~(l.multiscale \/ l.ndisplay = 3)]))

\* Layer.visible setter on a Labels layer
Labels_visible_setter(l, visibility) ==
    IF visibility
    THEN Labels_assign_none_to_editable(
             Labels_set_editable([l EXCEPT !.visible = TRUE]))
    ELSE Labels_editable_setter([l EXCEPT !.visible = FALSE], FALSE)

\* dims.ndisplay = ndisplay and the handlers of its event: _reset_history,
\* _update_dims and _set_editable()
Labels_set_ndisplay(l, ndisplay) ==
    IF l.ndisplay = ndisplay THEN l
    ELSE Labels_set_editable(reset_history([l EXCEPT !.ndisplay = ndisplay]))

\* dims.set_current_step(0, step) and the handlers of its event:
\* _reset_history and refresh
Labels_set_step(l, step) ==
    IF l.step = step THEN l ELSE reset_history([l EXCEPT !.step = step])

\* "self.data[self.dims.indices]" with two displayed axes
current_slice(l) == [p \in Pixels |-> l.data[<<l.step, p[1], p[2]>>]]

\* "self.data[self.dims.indices] = prev"
with_slice(l, prev) ==
    [l EXCEPT !.data = [v \in Voxels |->
        IF v[1] = l.step THEN prev[<<v[2], v[3]>>] ELSE l.data[v]]]

RECURSIVE trim_history(_)
\* trim_history with the slip of never dropping an entry
trim_history_never(l) == l

\* Labels._trim_history
trim_history(l) ==
    IF Len(l.undo_history) + Len(l.redo_history) <= history_limit THEN l
    ELSE IF l.undo_history = <<>> THEN [l EXCEPT !.error = "IndexError"]
    ELSE trim_history([l EXCEPT !.undo_history = Tail(@)])

\* Labels._save_history
save_history(l) ==
    IF l.block_saving THEN [l EXCEPT !.redo_history = <<>>]
    ELSE trim_history([l EXCEPT !.redo_history = <<>>,
                                !.undo_history = Append(@, current_slice(l))])

\* Labels.undo: _load_history(self._undo_history, self._redo_history)
undo(l) ==
    IF l.undo_history = <<>> THEN l
    ELSE with_slice(
             [l EXCEPT !.undo_history = SubSeq(@, 1, Len(@) - 1),
                       !.redo_history = Append(@, current_slice(l))],
             l.undo_history[Len(l.undo_history)])

\* Labels.redo: _load_history(self._redo_history, self._undo_history)
redo(l) ==
    IF l.redo_history = <<>> THEN l
    ELSE with_slice(
             [l EXCEPT !.redo_history = SubSeq(@, 1, Len(@) - 1),
                       !.undo_history = Append(@, current_slice(l))],
             l.redo_history[Len(l.redo_history)])

\* np.round of half an integer, which is not negative: halves go to the
\* even neighbour
round_half(twice) ==
    IF twice % 2 = 0 THEN twice \div 2
    ELSE IF ((twice - 1) \div 2) % 2 = 0 THEN (twice - 1) \div 2
    ELSE (twice + 1) \div 2

\* np.clip(x, 0, s) at twice the values
clip_twice(twice, s) ==
    IF twice < 0 THEN 0 ELSE IF twice > 2 * s THEN 2 * s ELSE twice

\* paint, "np.round(np.clip(c - self.brush_size / 2 + 0.5, 0, s))" and the
\* same with "+": is index i within the slice of the brush around c
in_brush(l, i, c, s) ==
    /\ round_half(clip_twice(2 * c - l.brush_size + 1, s)) <= i
    /\ i < round_half(clip_twice(2 * c + l.brush_size + 1, s))

\* paint, slice_coord: the brush along every axis when n_dimensional, along
\* the displayed axes at the plane of the coordinate otherwise
painted(l, coord) ==
    {v \in Voxels :
        /\ IF l.n_dimensional THEN in_brush(l, v[1], coord[1], DataShape[1])
           ELSE v[1] = coord[1]
        /\ in_brush(l, v[2], coord[2], DataShape[2])
        /\ in_brush(l, v[3], coord[3], DataShape[3])}

\* paint, "update the labels image"
paint_over(l, region, new_label) ==
    [l EXCEPT !.data = [v \in Voxels |->
        IF v \in region /\ (IF ~l.preserve_labels THEN TRUE
                            ELSE IF new_label = 0
                            THEN l.data[v] = l.selected_label
                            ELSE l.data[v] = 0)
        THEN new_label ELSE l.data[v]]]

\* Labels.paint(coord, new_label)
paint(l, coord, new_label) ==
    paint_over(save_history(l), painted(l, coord), new_label)

\* two voxels that share a face
adjacent(u, v) == Abs(u[1] - v[1]) + Abs(u[2] - v[2]) + Abs(u[3] - v[3]) = 1

\* a connected component of ndi.label(matches): what is reached from seen
RECURSIVE component(_, _)
component(matches, seen) ==
    IF {v \in matches \ seen : \E u \in seen : adjacent(u, v)} = {} THEN seen
    ELSE component(matches,
             seen \cup {v \in matches \ seen : \E u \in seen : adjacent(u, v)})

\* fill, "if self.contiguous: ...": the matches, or with more than one
\* component (or none) those of the component at the coordinate
contiguous_matches(matches, start) ==
    IF matches # {} /\ component(matches, {CHOOSE v \in matches : TRUE}) = matches
    THEN matches
    ELSE IF start \in matches THEN component(matches, {start})
    ELSE {}

\* fill: the voxels that get the new label, in the whole data when
\* n_dimensional and in the displayed plane (_data_raw) otherwise
filled(l, coord) ==
    IF l.contiguous
    THEN contiguous_matches(
             {v \in Voxels : /\ l.n_dimensional \/ v[1] = l.step
                             /\ l.data[v] = l.data[coord]},
             IF l.n_dimensional THEN coord ELSE <<l.step, coord[2], coord[3]>>)
    ELSE {v \in Voxels : /\ l.n_dimensional \/ v[1] = l.step
                         /\ l.data[v] = l.data[coord]}

\* fill, "labels[matches] = new_label"
fill_over(l, region, new_label) ==
    [l EXCEPT !.data = [v \in Voxels |->
        IF v \in region THEN new_label ELSE l.data[v]]]

\* fill returns at once: the coordinate is outside the data, the label
\* there is the new one, or it is kept by preserve_labels
fill_returns(l, coord, new_label) ==
    \/ coord \notin Voxels
    \/ l.data[coord] = new_label
    \/ l.preserve_labels /\ l.data[coord] # 0

\* Labels.fill(coord, new_label)
fill(l, coord, new_label) ==
    IF fill_returns(l, coord, new_label) THEN l
    ELSE fill_over(save_history(l), filled(l, coord), new_label)

\* a Shapes layer that was not constructed
unbuilt_layer == [f \in DOMAIN new_layer({}) |-> Unbuilt]

\* Labels(data, multiscale=multiscale)
InitLabels(multiscale) ==
    /\ StateIs(unbuilt_layer)
    /\ layers = <<>>
    /\ call_args = <<>>
    /\ n_events = 0
    /\ labels = new_labels(multiscale)
    /\ dims = Unbuilt
    /\ edict = Unbuilt
    /\ lastOp = "init"

\* a call on the Labels layer
LabelsBecome(l, op) ==
    /\ labels' = l
    /\ lastOp' = op
    /\ UNCHANGED <<shapes_vars, layers, call_args, n_events, dims, edict>>

\* the edits of the model are made in the displayed plane of a layer of one
\* array that is shown in two dimensions
CanEdit == ~labels.multiscale /\ labels.ndisplay = 2 /\ labels.visible

\* the coordinates of the cursor over the displayed plane
CursorCoords == {v \in Voxels : v[1] = labels.step}

\* layer.mode = mode
LabelsSetMode ==
    \E m \in LabelsMode : LabelsBecome(Labels_mode_setter(labels, m), "mode")

\* layer.editable = value
LabelsSetEditable ==
    \E value \in BOOLEAN :
        /\ value # labels.editable
        /\ LabelsBecome(Labels_editable_setter(labels, value), "editable")

\* layer.visible = visibility
LabelsSetVisible ==
    \E visibility \in BOOLEAN :
        LabelsBecome(Labels_visible_setter(labels, visibility), "visible")

\* layer.dims.ndisplay = ndisplay
LabelsSetNdisplay ==
    \E ndisplay \in {2, 3} :
        /\ ndisplay # labels.ndisplay
        /\ LabelsBecome(Labels_set_ndisplay(labels, ndisplay), "ndisplay")

\* layer.dims.set_current_step(0, step)
LabelsSetStep ==
    \E step \in 0 .. DataShape[1] - 1 :
        /\ step # labels.step
        /\ LabelsBecome(Labels_set_step(labels, step), "set_current_step")

\* layer.n_dimensional = not layer.n_dimensional
SetNDimensional ==
    LabelsBecome([labels EXCEPT !.n_dimensional = ~@], "n_dimensional")

\* layer.contiguous = not layer.contiguous
SetContiguous ==
    LabelsBecome([labels EXCEPT !.contiguous = ~@], "contiguous")

\* layer.preserve_labels = not layer.preserve_labels
SetPreserveLabels ==
    LabelsBecome([labels EXCEPT !.preserve_labels = ~@], "preserve_labels")

\* layer.paint(coord, new_label), while the undo history is below cap
Paint(columns, values, cap) ==
    \E coord \in CursorCoords, new_label \in values :
        /\ CanEdit
        /\ coord[3] \in columns
        /\ Len(labels.undo_history) < cap
        /\ LabelsBecome(paint(labels, coord, new_label), "paint")

\* layer.fill(coord, new_label), while the undo history is below cap
Fill(values, cap) ==
    \E coord \in CursorCoords, new_label \in values :
        /\ CanEdit
        /\ Len(labels.undo_history) < cap
        /\ LabelsBecome(fill(labels, coord, new_label), "fill")

\* layer.undo()
Undo == CanEdit /\ LabelsBecome(undo(labels), "undo")

\* layer.redo()
Redo == CanEdit /\ LabelsBecome(redo(labels), "redo")

\* modes and editability: the mode, editable, visible and ndisplay are set
\* on a layer of one array or of a multiscale list, next to an edit
NextLabelsMode ==
    \/ LabelsSetMode
    \/ LabelsSetEditable
    \/ LabelsSetVisible
    \/ LabelsSetNdisplay
    \/ Paint({0}, {1}, 1)

SpecLabelsMode == (\E multiscale \in BOOLEAN : InitLabels(multiscale))
                      /\ [][NextLabelsMode]_vars

\* editing: paint, fill, undo and redo in any order, with the displayed
\* plane and the flags of the edits changing in between
NextLabelsEdit ==
    \/ Paint({0, 1}, LabelValues, MaxHistory)
    \/ Fill(LabelValues, MaxHistory)
    \/ Undo
    \/ Redo
    \/ LabelsSetStep
    \/ SetNDimensional
    \/ SetContiguous
    \/ SetPreserveLabels

SpecLabelsEdit == InitLabels(FALSE) /\ [][NextLabelsEdit]_vars

\* the histories up to their limit: one edit again and again, undone and
\* redone
NextHistory ==
    \/ Paint({0}, {1}, history_limit + 1)
    \/ Undo
    \/ Redo

SpecHistory == InitLabels(FALSE) /\ [][NextHistory]_vars

(* ---------------------------------------------------------------------- *)
(* Claims about the Labels layer, under SpecLabelsMode                     *)
(* ---------------------------------------------------------------------- *)
\* C31: in every state a Labels layer that is multiscale or shown in three
\* dimensions is not editable, and a layer that is not editable is in the
\* mode pan_zoom
C31_NonEditableLabels ==
    /\ (labels.multiscale \/ labels.ndisplay = 3) => ~labels.editable
    /\ ~labels.editable => labels.mode = PAN_ZOOM

(* ---------------------------------------------------------------------- *)
(* Claims about undo and redo, under SpecLabelsEdit                        *)
(* ---------------------------------------------------------------------- *)
\* the edits at the cursor that save an entry of the history: every paint,
\* and every fill that does not return at once
EditsAt(coord, new_label) ==
    {paint(labels, coord, new_label)} \cup
    (IF fill_returns(labels, coord, new_label) THEN {}
     ELSE {fill(labels, coord, new_label)})

\* C37: in every state, after any edit (a paint or a fill at the cursor) an
\* undo restores the data to what it was before the edit, and a redo after
\* that undo restores the edited data
C37_UndoRestoresRedoRepeats ==
    \A coord \in CursorCoords, new_label \in LabelValues :
        \A edited \in EditsAt(coord, new_label) :
            /\ undo(edited).data = labels.data
            /\ redo(undo(edited)).data = edited.data

(* ---------------------------------------------------------------------- *)
(* Claims about the size of the histories, under SpecHistory               *)
(* ---------------------------------------------------------------------- *)
\* C38: in every state the undo history and the redo history together hold
\* at most history_limit entries
C38_HistoryWithinLimit ==
    Len(labels.undo_history) + Len(labels.redo_history) <= history_limit

\* an edit has just been saved with the undo history at the limit, and the
\* oldest entry left is a plane that was already painted: the entry of the
\* first edit, a plane of background, was dropped
C38_Witness ==
    /\ lastOp = "paint"
    /\ Len(labels.undo_history) = history_limit
    /\ labels.undo_history[1][<<0, 0>>] = 1

(* ---------------------------------------------------------------------- *)
(* The EventedDict next to a dict                                          *)
(* ---------------------------------------------------------------------- *)
\* a dict is the sequence of its (key, value) pairs in insertion order;
\* keys and values are strings
dict_has(d, k) == \E i \in 1 .. Len(d) : d[i][1] = k

dict_at(d, k) == d[CHOOSE i \in 1 .. Len(d) : d[i][1] = k][2]

\* d[k] = v: a key that is there keeps its place
dict_put(d, k, v) ==
    IF dict_has(d, k)
    THEN [i \in 1 .. Len(d) |-> IF d[i][1] = k THEN <<k, v>> ELSE d[i]]
    ELSE Append(d, <<k, v>>)

dict_del(d, k) == SelectSeq(d, LAMBDA e : e[1] # k)

dict_keys(d) == {d[i][1] : i \in 1 .. Len(d)}

dict_items(d) == {d[i] : i \in 1 .. Len(d)}

\* dict.fromkeys(iterable, value)
RECURSIVE dict_fromkeys(_, _)
dict_fromkeys(iterable, value) ==
    IF iterable = <<>> THEN <<>>
    ELSE dict_put(dict_fromkeys(SubSeq(iterable, 1, Len(iterable) - 1), value),
                  iterable[Len(iterable)], value)

\* "NOKEY = object()"
NOKEY == "<NOKEY>"

\* None as a value
PyNone == "None"

\* the default of pop when none is given
NoDefault == "<no default>"

\* what a call gives back: a value, a (key, value) pair, a view of the keys
\* or of the items, a mapping (compared by its items), or an exception
Value(v) == [kind |-> "value", val |-> v]
Item(k, v) == [kind |-> "item", val |-> <<k, v>>]
KeysView(d) == [kind |-> "keys", val |-> dict_keys(d)]
ItemsView(d) == [kind |-> "items", val |-> dict_items(d)]
Mapping(d) == [kind |-> "mapping", val |-> dict_items(d)]
Raise(e) == [kind |-> "raise", val |-> e]

\* a call that has returned ret, left the contents d and emitted events
Result(ret, d, events) == [ret |-> ret, d |-> d, events |-> events]

\* EventedDict.__getitem__
EventedDict_getitem(d, k) ==
    IF dict_has(d, k) THEN Result(Value(dict_at(d, k)), d, <<>>)
    ELSE Result(Raise("KeyError"), d, <<>>)

\* EventedDict.__setitem__
EventedDict_setitem(d, k, v) ==
    Result(Value(PyNone), dict_put(d, k, v),
           IF v # (IF dict_has(d, k) THEN dict_at(d, k) ELSE NOKEY)
           THEN << <<"set", k, v,
                     IF dict_has(d, k) THEN dict_at(d, k) ELSE NOKEY>> >>
           ELSE <<>>)

\* EventedDict.__delitem__
EventedDict_delitem(d, k) ==
    IF dict_has(d, k)
    THEN Result(Value(PyNone), dict_del(d, k),
                << <<"deleted", k, dict_at(d, k)>> >>)
    ELSE Result(Raise("KeyError"), d, <<>>)

\* Mapping.get, inherited
EventedDict_get(d, k, default) ==
    IF EventedDict_getitem(d, k).ret.kind = "raise"
    THEN Result(Value(default), d, <<>>)
    ELSE EventedDict_getitem(d, k)

\* MutableMapping.pop, inherited
EventedDict_pop(d, k, default) ==
    IF EventedDict_getitem(d, k).ret.kind = "raise"
    THEN IF default = NoDefault THEN Result(Raise("KeyError"), d, <<>>)
         ELSE Result(Value(default), d, <<>>)
    ELSE [EventedDict_delitem(d, k) EXCEPT !.ret = EventedDict_getitem(d, k).ret]

\* EventedDict_popitem as dict does it: the pair that was inserted last
EventedDict_popitem_last(d) ==
    IF d = <<>> THEN Result(Raise("KeyError"), d, <<>>)
    ELSE [EventedDict_delitem(d, d[Len(d)][1])
          EXCEPT !.ret = Item(d[Len(d)][1], d[Len(d)][2])]

\* MutableMapping.popitem, inherited: "key = next(iter(self))", the first key
EventedDict_popitem(d) ==
    IF d = <<>> THEN Result(Raise("KeyError"), d, <<>>)
    ELSE [EventedDict_delitem(d, d[1][1]) EXCEPT !.ret = Item(d[1][1], d[1][2])]

\* MutableMapping.clear, inherited: popitem until KeyError
RECURSIVE EventedDict_clear_from(_)
EventedDict_clear_from(r) ==
    IF EventedDict_popitem(r.d).ret.kind = "raise"
    THEN [r EXCEPT !.ret = Value(PyNone)]
    ELSE EventedDict_clear_from(
             Result(r.ret, EventedDict_popitem(r.d).d,
                    r.events \o EventedDict_popitem(r.d).events))

EventedDict_clear(d) == EventedDict_clear_from(Result(Value(PyNone), d, <<>>))

\* MutableMapping.update, inherited: "for key in other: self[key] = other[key]"
RECURSIVE EventedDict_update_from(_, _)
EventedDict_update_from(r, other) ==
    IF other = <<>> THEN r
    ELSE EventedDict_update_from(
             Result(r.ret, EventedDict_setitem(r.d, other[1][1], other[1][2]).d,
                    r.events \o
                    EventedDict_setitem(r.d, other[1][1], other[1][2]).events),
             Tail(other))

EventedDict_update(d, other) ==
    EventedDict_update_from(Result(Value(PyNone), d, <<>>), other)

\* MutableMapping.setdefault, inherited
EventedDict_setdefault(d, k, default) ==
    IF EventedDict_getitem(d, k).ret.kind = "raise"
    THEN [EventedDict_setitem(d, k, default) EXCEPT !.ret = Value(default)]
    ELSE EventedDict_getitem(d, k)

\* EventedDict.copy: __newlike__(self._dict)
EventedDict_copy(d) == Result(Mapping(d), d, <<>>)

\* EventedDict.fromkeys
EventedDict_fromkeys(d, iterable, value) ==
    Result(Mapping(dict_fromkeys(iterable, value)), d, <<>>)

\* Mapping.keys and Mapping.items, inherited
EventedDict_keys(d) == Result(KeysView(d), d, <<>>)
EventedDict_items(d) == Result(ItemsView(d), d, <<>>)

\* the same calls on a dict
py_getitem(d, k) ==
    IF dict_has(d, k) THEN Result(Value(dict_at(d, k)), d, <<>>)
    ELSE Result(Raise("KeyError"), d, <<>>)

py_setitem(d, k, v) == Result(Value(PyNone), dict_put(d, k, v), <<>>)

py_delitem(d, k) ==
    IF dict_has(d, k) THEN Result(Value(PyNone), dict_del(d, k), <<>>)
    ELSE Result(Raise("KeyError"), d, <<>>)

py_get(d, k, default) ==
    Result(Value(IF dict_has(d, k) THEN dict_at(d, k) ELSE default), d, <<>>)

py_pop(d, k, default) ==
    IF dict_has(d, k) THEN Result(Value(dict_at(d, k)), dict_del(d, k), <<>>)
    ELSE IF default = NoDefault THEN Result(Raise("KeyError"), d, <<>>)
    ELSE Result(Value(default), d, <<>>)

\* dict.popitem: the pair that was inserted last
py_popitem(d) ==
    IF d = <<>> THEN Result(Raise("KeyError"), d, <<>>)
    ELSE Result(Item(d[Len(d)][1], d[Len(d)][2]),
                SubSeq(d, 1, Len(d) - 1), <<>>)

py_clear(d) == Result(Value(PyNone), <<>>, <<>>)

RECURSIVE py_update_from(_, _)
py_update_from(d, other) ==
    IF other = <<>> THEN d
    ELSE py_update_from(dict_put(d, other[1][1], other[1][2]), Tail(other))

py_update(d, other) == Result(Value(PyNone), py_update_from(d, other), <<>>)

py_setdefault(d, k, default) ==
    IF dict_has(d, k) THEN Result(Value(dict_at(d, k)), d, <<>>)
    ELSE Result(Value(default), Append(d, <<k, default>>), <<>>)

py_copy(d) == Result(Mapping(d), d, <<>>)

py_fromkeys(d, iterable, value) ==
    Result(Mapping(dict_fromkeys(iterable, value)), d, <<>>)

py_keys(d) == Result(KeysView(d), d, <<>>)
py_items(d) == Result(ItemsView(d), d, <<>>)

\* the keys and values of the calls, the contents at the start, and the
\* arguments of update and fromkeys
DictKeys == {"a", "k"}
DictValues == {"hi", "v"}
StartContents == {<<>>, << <<"a", "hi">> >>, << <<"a", "hi">>, <<"b", "ho">> >>}
UpdateInputs == {<< <<"a", "v">> >>, << <<"k", "v">>, <<"b", "v">> >>}
FromkeysInputs == {<<"a", "b", "c">>}

\* EventedDict(regular_dict) next to regular_dict, before any call
InitDict ==
    /\ StateIs(unbuilt_layer)
    /\ layers = <<>>
    /\ call_args = <<>>
    /\ n_events = 0
    /\ labels = Unbuilt
    /\ dims = Unbuilt
    /\ \E d \in StartContents :
           edict = [d |-> d, ret |-> Value(PyNone), events |-> <<>>,
                    plain_d |-> d, plain_ret |-> Value(PyNone)]
    /\ lastOp = "init"

\* a method was called on the EventedDict, and the same method with the same
\* arguments on a dict of the contents the EventedDict had
DictBecomes(evented, plain, op) ==
    /\ edict' = [d |-> evented.d, ret |-> evented.ret,
                 events |-> evented.events,
                 plain_d |-> plain.d, plain_ret |-> plain.ret]
    /\ lastOp' = op
    /\ UNCHANGED <<shapes_vars, layers, call_args, n_events, labels, dims>>

GetItem ==
    \E k \in DictKeys :
        DictBecomes(EventedDict_getitem(edict.d, k), py_getitem(edict.d, k),
                    "__getitem__")

SetItem ==
    \E k \in DictKeys, v \in DictValues :
        DictBecomes(EventedDict_setitem(edict.d, k, v),
                    py_setitem(edict.d, k, v), "__setitem__")

DelItem ==
    \E k \in DictKeys :
        DictBecomes(EventedDict_delitem(edict.d, k), py_delitem(edict.d, k),
                    "__delitem__")

Clear == DictBecomes(EventedDict_clear(edict.d), py_clear(edict.d), "clear")

CopyDict == DictBecomes(EventedDict_copy(edict.d), py_copy(edict.d), "copy")

Fromkeys ==
    \E iterable \in FromkeysInputs, v \in DictValues :
        DictBecomes(EventedDict_fromkeys(edict.d, iterable, v),
                    py_fromkeys(edict.d, iterable, v), "fromkeys")

Get ==
    \E k \in DictKeys, default \in {PyNone, "default"} :
        DictBecomes(EventedDict_get(edict.d, k, default),
                    py_get(edict.d, k, default), "get")

Items == DictBecomes(EventedDict_items(edict.d), py_items(edict.d), "items")

Keys == DictBecomes(EventedDict_keys(edict.d), py_keys(edict.d), "keys")

Pop ==
    \E k \in DictKeys, default \in {NoDefault, "default"} :
        DictBecomes(EventedDict_pop(edict.d, k, default),
                    py_pop(edict.d, k, default), "pop")

Popitem ==
    DictBecomes(EventedDict_popitem(edict.d), py_popitem(edict.d), "popitem")

Setdefault ==
    \E k \in DictKeys, default \in DictValues :
        DictBecomes(EventedDict_setdefault(edict.d, k, default),
                    py_setdefault(edict.d, k, default), "setdefault")

Update ==
    \E other \in UpdateInputs :
        DictBecomes(EventedDict_update(edict.d, other),
                    py_update(edict.d, other), "update")

NextDict ==
    \/ GetItem
    \/ SetItem
    \/ DelItem
    \/ Clear
    \/ CopyDict
    \/ Fromkeys
    \/ Get
    \/ Items
    \/ Keys
    \/ Pop
    \/ Popitem
    \/ Setdefault
    \/ Update

SpecDict == InitDict /\ [][NextDict]_vars

(* ---------------------------------------------------------------------- *)
(* Claims about the EventedDict, under SpecDict                            *)
(* ---------------------------------------------------------------------- *)
\* C32: after every call the EventedDict has returned what the dict has
\* returned for the same call on the same contents, and the two have the
\* same contents
C32_SameAsDict ==
    /\ edict.ret.kind = edict.plain_ret.kind
    /\ edict.ret.val = edict.plain_ret.val
    /\ dict_items(edict.d) = dict_items(edict.plain_d)

(* ---------------------------------------------------------------------- *)
(* The Dims model: ranges, current steps and the order of the axes         *)
(* ---------------------------------------------------------------------- *)
\* the largest number of dimensions
MaxNdim == 3

\* Dims(): ndim is ndisplay, set through the ndim setter from no axes
new_dims ==
    [range |-> <<<<0, 2, 1>>, <<0, 2, 1>>>>, current_step |-> <<0, 0>>,
     order |-> <<0, 1>>, ndisplay |-> 2, error |-> ""]

\* Dims.ndim: len(self.point), one value for every range
Dims_ndim(d) == Len(d.range)

\* Dims.nsteps
nsteps(d) ==
    [i \in 1 .. Len(d.range) |->
        ((d.range[i][2] - d.range[i][1] - d.range[i][3]) \div d.range[i][3]) + 1]

\* Dims._assert_axis_in_bounds: is the axis in range(-ndim, ndim)
axis_in_bounds(d, axis) == 0 - Dims_ndim(d) <= axis /\ axis < Dims_ndim(d)

\* Dims._assert_axis_in_bounds: "axis % self.ndim"
wrapped(d, axis) == axis % Dims_ndim(d)

\* np.round of the fraction n / den: halves go to the even neighbour
round_ratio(n, den) ==
    IF 2 * (n % den) < den THEN n \div den
    ELSE IF 2 * (n % den) > den THEN (n \div den) + 1
    ELSE IF (n \div den) % 2 = 0 THEN n \div den
    ELSE (n \div den) + 1

\* "np.round(np.clip(value, 0, self.nsteps[axis] - 1)).astype(int)" for the
\* value n / den: clip is the minimum of the upper end and the maximum of
\* the value and 0
clipped_step(n, den, last) ==
    IF (IF n < 0 THEN 0 ELSE n) > last * den THEN last
    ELSE round_ratio(IF n < 0 THEN 0 ELSE n, den)

\* Dims.set_current_step(axis, n / den)
set_current_step(d, axis, n, den) ==
    IF ~axis_in_bounds(d, axis) THEN [d EXCEPT !.error = "ValueError"]
    ELSE [d EXCEPT !.current_step[wrapped(d, axis) + 1] =
             clipped_step(n, den, At(nsteps(d), wrapped(d, axis)) - 1)]

\* Dims.set_point(axis, value): "raw_step = (value - min_val) / step_size"
set_point(d, axis, value) ==
    IF ~axis_in_bounds(d, axis) THEN [d EXCEPT !.error = "ValueError"]
    ELSE set_current_step(d, axis,
             value - At(d.range, wrapped(d, axis))[1],
             At(d.range, wrapped(d, axis))[3])

\* set_range with the slip of bringing the current step into the new range
set_range_clamping(d, axis, new_range) ==
    IF ~axis_in_bounds(d, axis) THEN [d EXCEPT !.error = "ValueError"]
    ELSE set_current_step(
             [d EXCEPT !.range[wrapped(d, axis) + 1] = new_range],
             axis, At(d.current_step, wrapped(d, axis)), 1)

\* Dims.set_range(axis, _range)
set_range(d, axis, new_range) ==
    IF ~axis_in_bounds(d, axis) THEN [d EXCEPT !.error = "ValueError"]
    ELSE [d EXCEPT !.range[wrapped(d, axis) + 1] = new_range]

\* Dims._increment_dims_right(axis) and Dims._increment_dims_left(axis)
increment_dims(d, axis, by) ==
    IF ~axis_in_bounds(d, axis) THEN [d EXCEPT !.error = "IndexError"]
    ELSE set_current_step(d, axis, At(d.current_step, wrapped(d, axis)) + by, 1)

\* reorder_after_dim_reduction with the slip of keeping the numbers of the
\* axes that are left
reorder_kept(order) == order

\* Dims._reorder_after_dim_reduction: "arr[np.argsort(arr)] = range(len(arr))",
\* every entry becomes its rank
reorder_after_dim_reduction(order) ==
    [i \in 1 .. Len(order) |->
        Cardinality({j \in 1 .. Len(order) : order[j] < order[i]})]

\* Dims.ndim setter, "elif ndim > cur_ndim"
more_dims(d, added) ==
    [d EXCEPT !.range = Repeat(<<0, 2, 1>>, added) \o @,
              !.current_step = Repeat(0, added) \o @,
              !.order = [i \in 1 .. added |-> i - 1] \o
                        [i \in 1 .. Len(d.order) |-> d.order[i] + added]]

\* Dims.ndim setter, "elif ndim < cur_ndim"
fewer_dims(d, n) ==
    [d EXCEPT !.range = SubSeq(@, Len(@) - n + 1, Len(@)),
              !.current_step = SubSeq(@, Len(@) - n + 1, Len(@)),
              !.order = reorder_after_dim_reduction(
                            SubSeq(@, Len(@) - n + 1, Len(@)))]

\* Dims.ndim setter
Dims_ndim_setter(d, n) ==
    IF n = Dims_ndim(d) THEN d
    ELSE IF n > Dims_ndim(d) THEN more_dims(d, n - Dims_ndim(d))
    ELSE fewer_dims(d, n)

\* Dims.order setter
Dims_order_setter(d, order) ==
    IF d.order = order THEN d
    ELSE IF Len(order) # Dims_ndim(d) THEN [d EXCEPT !.error = "ValueError"]
    ELSE [d EXCEPT !.order = order]

\* Dims._roll: "self.order = np.roll(self.order, 1)"
Dims_roll(d) ==
    Dims_order_setter(d,
        IF d.order = <<>> THEN <<>>
        ELSE <<d.order[Len(d.order)]>> \o SubSeq(d.order, 1, Len(d.order) - 1))

\* Dims._transpose: the last two entries change places; with one axis
\* "order[-2]" is out of range
Dims_transpose(d) ==
    IF Len(d.order) < 2 THEN [d EXCEPT !.error = "IndexError"]
    ELSE Dims_order_setter(d,
             SubSeq(d.order, 1, Len(d.order) - 2) \o
             <<d.order[Len(d.order)], d.order[Len(d.order) - 1]>>)

\* the axes, ranges and points of the calls, and the orders that are
\* assigned: the permutations of the axes
AxisInputs == -1 .. MaxNdim - 1
RangeInputs == {<<0, 2, 1>>, <<0, 1, 1>>, <<0, 4, 2>>}
StepInputs == {-1, 1, 5}
PointInputs == {0, 1, 3}

IsPermutation(order) ==
    /\ \A i \in 1 .. Len(order) : order[i] \in 0 .. Len(order) - 1
    /\ \A i, j \in 1 .. Len(order) : order[i] = order[j] => i = j

OrderInputs(n) == {order \in [1 .. n -> 0 .. n - 1] : IsPermutation(order)}

\* Dims()
InitDims ==
    /\ StateIs(unbuilt_layer)
    /\ layers = <<>>
    /\ call_args = <<>>
    /\ n_events = 0
    /\ labels = Unbuilt
    /\ dims = new_dims
    /\ edict = Unbuilt
    /\ lastOp = "init"

\* a call on the Dims; the error of the call before is gone
DimsBecome(d, op) ==
    /\ dims' = d
    /\ lastOp' = op
    /\ UNCHANGED <<shapes_vars, layers, call_args, n_events, labels, edict>>

Called == [dims EXCEPT !.error = ""]

\* dims.set_current_step(axis, value)
SetCurrentStep ==
    \E axis \in AxisInputs, value \in StepInputs :
        DimsBecome(set_current_step(Called, axis, value, 1), "set_current_step")

\* dims.set_point(axis, value)
DimsSetPoint ==
    \E axis \in AxisInputs, value \in PointInputs :
        DimsBecome(set_point(Called, axis, value), "set_point")

\* dims.set_range(axis, _range)
SetRange ==
    \E axis \in AxisInputs, new_range \in RangeInputs :
        DimsBecome(set_range(Called, axis, new_range), "set_range")

\* dims._increment_dims_right(axis), dims._increment_dims_left(axis)
IncrementDims ==
    \E axis \in AxisInputs, by \in {-1, 1} :
        DimsBecome(increment_dims(Called, axis, by), "increment_dims")

\* dims.ndim = n
SetNdim ==
    \E n \in 1 .. MaxNdim :
        /\ n # Dims_ndim(dims)
        /\ DimsBecome(Dims_ndim_setter(Called, n), "ndim")

\* dims.order = order, a permutation of the axes or of one axis more
DimsSetOrder ==
    \E order \in OrderInputs(Dims_ndim(dims)) \cup
                  {[i \in 1 .. Dims_ndim(dims) + 1 |-> i - 1]} :
        DimsBecome(Dims_order_setter(Called, order), "order")

\* dims._roll()
Roll == DimsBecome(Dims_roll(Called), "roll")

\* dims._transpose()
Transpose == DimsBecome(Dims_transpose(Called), "transpose")

\* the sliders: steps, points and ranges are set and the number of
\* dimensions changes
NextDimsSteps ==
    \/ SetCurrentStep
    \/ DimsSetPoint
    \/ SetRange
    \/ IncrementDims
    \/ SetNdim

SpecDimsSteps == InitDims /\ [][NextDimsSteps]_vars

\* the order: it is assigned, rolled and transposed while the number of
\* dimensions and the steps change
NextDimsOrder ==
    \/ DimsSetOrder
    \/ SetNdim
    \/ Roll
    \/ Transpose
    \/ SetCurrentStep

SpecDimsOrder == InitDims /\ [][NextDimsOrder]_vars

(* ---------------------------------------------------------------------- *)
(* Claims about the Dims model, under SpecDimsSteps and SpecDimsOrder      *)
(* ---------------------------------------------------------------------- *)
\* C39: in every state the current step of every axis is at least 0 and at
\* most nsteps - 1 of that axis
C39_StepWithinRange ==
    \A i \in 1 .. Dims_ndim(dims) :
        0 <= dims.current_step[i] /\ dims.current_step[i] <= nsteps(dims)[i] - 1

====
